---- MODULE Spec2Model ----
(***************************************************************************)
(* A model of the resumable, concurrent ETL engine of etl-for-all-studies: *)
(* the expression stream reader (expression_processing.py), the dimension  *)
(* reconciler (repositories.py), the per-study pipeline and the run-level  *)
(* worker pool (pipeline.py), over the schema of models.py.                *)
(*                                                                         *)
(* The module holds several specifications over one set of variables; each *)
(* specification leaves the variables of the others at their initial       *)
(* value:                                                                  *)
(*   SpecReader  iter_filtered_expression as a generator                   *)
(*   SpecSample  get_or_create_sample calls of one session after another   *)
(*   SpecStudy   _process_single_study of one study, interrupted and re-run *)
(*   SpecDim     get-or-create calls of concurrent study workers            *)
(*   SpecRun     run_pipeline: the worker pool and the collection of results*)
(*   SpecCorr    the correlation replace of the pipeline and of the two jobs *)
(*   SpecRollback the run command's rows and rollback_run (src/etl, src/cli) *)
(*   SpecLoader  BatchLoader writes and their retries (src/etl/loader.py)    *)
(*   SpecCli     the loop of the run command over the studies               *)
(*   SpecCompute compute_gene_pair_correlations and _benjamini_hochberg     *)
(*   SpecMetadata _first_non_empty and _process_metadata                    *)
(*   SpecCheckpoint CheckpointStore.record and latest_batch                 *)
(*   SpecStudyAnyFile SpecStudy on files that may repeat a gene             *)
(*   SpecStudyCohort SpecStudy on a study of three samples of one illness   *)
(*   SpecWorkers the sessions and caches of the workers of run_pipeline     *)
(***************************************************************************)
EXTENDS Integers, Sequences, FiniteSets, TLC

VARIABLES
    rdIn,       \* reader: the arguments of iter_filtered_expression and the file
    rdPc,       \* reader: "new" | "open" | "failed" | "exhausted"
    rdOut,      \* reader: the rows yielded so far
    smSess,     \* sample: the tables as the session sees them
    smCache,    \* sample: the session's DimensionCache
    smLast,     \* sample: the last operation, with the call's argument, the row before it and the result
    stIn,       \* study: the expression file and the configured batch_size
    stDb,       \* study: the committed tables
    stSess,     \* study: the tables as the worker's open session sees them (committed and pending)
    stCache,    \* study: the worker's DimensionCache
    stPc,       \* study: the worker's position in _process_single_study
    stL,        \* study: the worker's locals
    stCompleted, \* study: whether an earlier pass over the study ran to completion
    dmDialect,  \* dimensions: bind.dialect.name of the engine, "sqlite" or another
    dmKind,     \* dimensions: the dimension table the workers are loading
    dmRows,     \* dimensions: the dimension rows, each committed or pending in a worker's transaction
    dmLock,     \* dimensions: the worker whose transaction holds SQLite's write lock
    dmCache,    \* dimensions: each worker's DimensionCache
    dmPc,       \* dimensions: each worker's position
    dmCall,     \* dimensions: each worker's running call
    dmRet,      \* dimensions: how each worker's last call ended
    rnMax,      \* run: max_workers of the pool
    rnStatus,   \* run: each study's future: queued, running, completed or failed
    rnPc,       \* run: each worker's position in _process_single_study
    rnExc,      \* run: the exception each future holds
    rnWriter,   \* run: the study whose transaction holds the database's write lock
    rnMain,     \* run: the position of run_pipeline
    rnSeen,     \* run: the futures whose result run_pipeline has taken
    rnLogged,   \* run: the studies whose failure run_pipeline has logged
    crDb,       \* correlation: the committed correlation rows
    crSess,     \* correlation: the correlation rows as the open session sees them
    crPc,       \* correlation: the position of the recomputation that is running
    crRun,      \* correlation: the entry point, the study and the data of the running recomputation
    crLast,     \* correlation: how the last recomputation ended
    rbShared,   \* rollback: whether run.artifacts_db names the engine's database file
    rbDb,       \* rollback: the committed tables of the engine database
    rbArtifacts,\* rollback: the checkpoints table of a separate artifacts file
    rbConn,     \* rollback: the engine tables as the open transaction of rollback_run sees them
    rbPc,       \* rollback: the table rollback_run has last deleted from, or "idle"
    rbArg,      \* rollback: the run id rollback_run was called with
    rbRun,      \* rollback: the run id, the position and the batch_index of the run command
    rbStarted,  \* rollback: the run ids taken so far
    rbLast,     \* rollback: how the last rollback_run ended
    ldConfig,   \* loader: the LoaderConfig of the loader, its retry_attempts
    ldIn,       \* loader: the operation and the arguments of the running or last call
    ldDb,       \* loader: the committed dim_study and fact_expression
    ldConn,     \* loader: the tables as the open transaction of an attempt sees them
    ldBefore,   \* loader: the committed tables when the call was made
    ldCalls,    \* loader: the number of calls made
    ldPc,       \* loader: "idle" | "attempt" | "executed" | "wait" | "returned" | "raised"
    ldAttempt,  \* loader: tenacity's attempt_number
    ldErrs,     \* loader: the exception of each failed attempt of the call, and where it was raised
    ldRet,      \* loader: what the caller gets
    ldUpserted, \* loader: for each study id, the payload of the last upsert that returned
    clPlan,     \* cli: the discovered studies, in the order of the plan
    clPc,       \* cli: the position of run: "transform" | "upsert" | "batch" | "record" | "complete" | "raised"
    clIdx,      \* cli: the place in the plan of the study being processed
    clBatchIndex,\* cli: batch_index
    clStatus,   \* cli: what became of each study: pending, skipped, loaded or failed
    clCheckpoints,\* cli: the checkpoints recorded, by study and batch_index
    clLog,        \* cli: the batch commits and record calls of the run, in order
    cpIn,       \* compute: the function called and its arguments
    cpPc,       \* compute: "new" | "done"
    cpOut,      \* compute: what the call returned
    mdIn,       \* metadata: the function called and its arguments
    mdPc,       \* metadata: "new" | "done"
    mdOut,      \* metadata: what the call returned and committed
    ckRows,     \* checkpoint store: the rows of the table checkpoints
    ckRet,      \* checkpoint store: the last latest_batch call and its value
    wkMax,      \* workers: the threads of the pool
    wkPc,       \* workers: study -> "queued" | "discover" | "open" | "ready" | "completed" | "failed"
    wkSession,  \* workers: study -> the Session bound to the local session
    wkCache,    \* workers: study -> the DimensionCache bound to the local cache
    wkSessions, \* workers: the Session objects made so far, "open" | "closed"
    wkUsed      \* workers: which worker has used which session and cache

rdVars == <<rdIn, rdPc, rdOut>>

smVars == <<smSess, smCache, smLast>>

stVars == <<stIn, stDb, stSess, stCache, stPc, stL, stCompleted>>

dmVars == <<dmDialect, dmKind, dmRows, dmLock, dmCache, dmPc, dmCall, dmRet>>

rnVars == <<rnMax, rnStatus, rnPc, rnExc, rnWriter, rnMain, rnSeen, rnLogged>>

crVars == <<crDb, crSess, crPc, crRun, crLast>>

rbVars == <<rbShared, rbDb, rbArtifacts, rbConn, rbPc, rbArg, rbRun, rbStarted, rbLast>>

ldVars == <<ldConfig, ldIn, ldDb, ldConn, ldBefore, ldCalls, ldPc, ldAttempt, ldErrs, ldRet, ldUpserted>>

clVars == <<clPlan, clPc, clIdx, clBatchIndex, clStatus, clCheckpoints, clLog>>

cpVars == <<cpIn, cpPc, cpOut>>

mdVars == <<mdIn, mdPc, mdOut>>

ckVars == <<ckRows, ckRet>>

wkVars == <<wkMax, wkPc, wkSession, wkCache, wkSessions, wkUsed>>

vars == <<rdIn, rdPc, rdOut, smSess, smCache, smLast,
          stIn, stDb, stSess, stCache, stPc, stL, stCompleted,
          dmDialect, dmKind, dmRows, dmLock, dmCache, dmPc, dmCall, dmRet,
          rnMax, rnStatus, rnPc, rnExc, rnWriter, rnMain, rnSeen, rnLogged,
          crDb, crSess, crPc, crRun, crLast,
          rbShared, rbDb, rbArtifacts, rbConn, rbPc, rbArg, rbRun, rbStarted, rbLast,
          ldConfig, ldIn, ldDb, ldConn, ldBefore, ldCalls, ldPc, ldAttempt, ldErrs, ldRet, ldUpserted,
          clPlan, clPc, clIdx, clBatchIndex, clStatus, clCheckpoints, clLog,
          cpIn, cpPc, cpOut,
          mdIn, mdPc, mdOut,
          ckRows, ckRet,
          wkMax, wkPc, wkSession, wkCache, wkSessions, wkUsed>>

\* the value of every variable of a specification that is not running
RdOff == rdIn = <<>> /\ rdPc = "off" /\ rdOut = <<>>

SmOff == smSess = <<>> /\ smCache = <<>> /\ smLast = <<>>

StOff ==
    /\ stIn = <<>> /\ stDb = <<>> /\ stSess = <<>> /\ stCache = <<>>
    /\ stPc = "off" /\ stL = <<>> /\ stCompleted = FALSE

DmOff ==
    /\ dmDialect = "off" /\ dmKind = "off" /\ dmRows = {} /\ dmLock = "off" /\ dmCache = <<>>
    /\ dmPc = <<>> /\ dmCall = <<>> /\ dmRet = <<>>

RnOff ==
    /\ rnMax = 0 /\ rnStatus = <<>> /\ rnPc = <<>> /\ rnExc = <<>>
    /\ rnWriter = "off" /\ rnMain = "off" /\ rnSeen = {} /\ rnLogged = {}

CrOff ==
    /\ crDb = {} /\ crSess = {} /\ crPc = "off" /\ crRun = <<>> /\ crLast = <<>>

RbOff ==
    /\ rbShared = FALSE /\ rbDb = <<>> /\ rbArtifacts = {} /\ rbConn = <<>> /\ rbPc = "off"
    /\ rbArg = "off" /\ rbRun = <<>> /\ rbStarted = {} /\ rbLast = <<>>

LdOff ==
    /\ ldConfig = <<>> /\ ldIn = <<>> /\ ldDb = <<>> /\ ldConn = <<>> /\ ldBefore = <<>>
    /\ ldCalls = 0 /\ ldPc = "off" /\ ldAttempt = 0 /\ ldErrs = <<>> /\ ldRet = <<>>
    /\ ldUpserted = <<>>

ClOff ==
    /\ clPlan = <<>> /\ clPc = "off" /\ clIdx = 0 /\ clBatchIndex = 0 /\ clStatus = <<>>
    /\ clCheckpoints = {} /\ clLog = <<>>

CpOff ==
    /\ cpIn = <<>> /\ cpPc = "off" /\ cpOut = <<>>

MdOff ==
    /\ mdIn = <<>> /\ mdPc = "off" /\ mdOut = <<>>

CkOff ==
    /\ ckRows = {} /\ ckRet = "off"

WkOff ==
    /\ wkMax = 0 /\ wkPc = <<>> /\ wkSession = <<>> /\ wkCache = <<>>
    /\ wkSessions = <<>> /\ wkUsed = {}

----------------------------------------------------------------------------
(* Bounds of the model.                                                    *)

\* the longest expression file, in data rows
MaxRows == 3

----------------------------------------------------------------------------
(* Values shared by the specifications.                                    *)

\* Python's None for a resume gene (pipeline.py:106-110 returns None when no state row exists)
NoGene == "None"

\* repositories.py:25, metadata_processing.UNKNOWN_VALUE
UNKNOWN_VALUE == "UNKNOWN"

Min(a, b) == IF a <= b THEN a ELSE b

\* the elements of a sequence
Range(s) == {s[k] : k \in DOMAIN s}

\* float(value) of expression_processing.py:93-95, in tenths; a cell that float()
\* rejects (ValueError) has no entry
FloatTable == [c \in {"1.0", "2.5"} |-> IF c = "1.0" THEN 10 ELSE 25]

IsFloat(c) == c \in DOMAIN FloatTable

ParseFloat(c) == FloatTable[c]

----------------------------------------------------------------------------
(* expression_processing.py: iter_filtered_expression                      *)

\* an ExpressionRow (expression_processing.py:12-17)
ExpressionRow(g, s, v, i) ==
    [gene_id |-> g, sample_accession |-> s, expression_value |-> v, sample_index |-> i]

\* an inner loop that takes the whole row of the resume gene as persisted
EmitCellsSkipsResumeRow(gene, sampleHeaders, vals, sampleCols, resumeGene, resumeIdx) ==
    LET n == Min(Len(sampleHeaders), Len(vals))
        keep(k) == /\ sampleHeaders[k] \in sampleCols
                   /\ gene # resumeGene
                   /\ IsFloat(vals[k])
        f[k \in 0..n] ==
            IF k = 0 THEN <<>>
            ELSE IF keep(k)
                 THEN Append(f[k - 1],
                             ExpressionRow(gene, sampleHeaders[k], ParseFloat(vals[k]), k - 1))
                 ELSE f[k - 1]
    IN f[n]

\* the inner loop over the cells of one data row (expression_processing.py:86-109):
\* idx is the 0-based position among the header's sample columns
EmitCells(gene, sampleHeaders, vals, sampleCols, resumeGene, resumeIdx) ==
    LET n == Min(Len(sampleHeaders), Len(vals))
        keep(k) == /\ sampleHeaders[k] \in sampleCols
                   /\ ~(gene = resumeGene /\ (k - 1) < resumeIdx)
                   /\ IsFloat(vals[k])
        f[k \in 0..n] ==
            IF k = 0 THEN <<>>
            ELSE IF keep(k)
                 THEN Append(f[k - 1],
                             ExpressionRow(gene, sampleHeaders[k], ParseFloat(vals[k]), k - 1))
                 ELSE f[k - 1]
    IN f[n]

\* the outer loop over the data rows from row k on (expression_processing.py:69-113),
\* with the loop's mutable locals resume_reached, resume_gene, resume_sample_index
RECURSIVE IterRows(_, _, _, _, _, _, _, _)
IterRows(rows, k, sampleHeaders, allowed, sampleCols, reached, resumeGene, resumeIdx) ==
    IF k > Len(rows) THEN <<>>
    ELSE LET row == rows[k]
             g == row.gene
             skip == IterRows(rows, k + 1, sampleHeaders, allowed, sampleCols,
                              reached, resumeGene, resumeIdx)
         IN IF g = "" THEN skip
            ELSE IF ~reached /\ g # resumeGene THEN skip
            ELSE IF g \notin allowed
                 THEN IterRows(rows, k + 1, sampleHeaders, allowed, sampleCols,
                               TRUE, resumeGene, resumeIdx)
            ELSE EmitCells(g, sampleHeaders, row.vals, sampleCols, resumeGene, resumeIdx)
                 \o IF g = resumeGene
                    THEN IterRows(rows, k + 1, sampleHeaders, allowed, sampleCols,
                                  TRUE, NoGene, 0)
                    ELSE IterRows(rows, k + 1, sampleHeaders, allowed, sampleCols,
                                  TRUE, resumeGene, resumeIdx)

\* the checks before the first row without the one of lines 63-67
ReaderRaisesWithoutOverlapCheck(file, sampleCols) ==
    \/ sampleCols = {}
    \/ Len(file.header) < 2
    \/ file.header[1] \notin {"gene", "ensembl_id"}

\* the checks made before the first row is read (expression_processing.py:34-67):
\* TRUE when ExpressionFormatError is raised
ReaderRaises(file, sampleCols) ==
    \/ sampleCols = {}
    \/ Len(file.header) < 2
    \/ file.header[1] \notin {"gene", "ensembl_id"}
    \/ sampleCols \cap Range(Tail(file.header)) = {}

\* a stream that takes every gene of the file as allowed
IterUnfilteredExpression(file, allowed, sampleCols, resumeGene, resumeIdx) ==
    LET sampleHeaders == Tail(file.header)
        cols == sampleCols \cap Range(sampleHeaders)
    IN IterRows(file.rows, 1, sampleHeaders, {file.rows[k].gene : k \in DOMAIN file.rows},
                cols, resumeGene = NoGene, resumeGene, resumeIdx)

\* a stream that does not wait for the resume gene
IterFilteredExpressionFromStart(file, allowed, sampleCols, resumeGene, resumeIdx) ==
    LET sampleHeaders == Tail(file.header)
        cols == sampleCols \cap Range(sampleHeaders)
    IN IterRows(file.rows, 1, sampleHeaders, allowed, cols, TRUE, resumeGene, resumeIdx)

\* the whole stream of iter_filtered_expression (expression_processing.py:24-113)
IterFilteredExpression(file, allowed, sampleCols, resumeGene, resumeIdx) ==
    LET sampleHeaders == Tail(file.header)
        cols == sampleCols \cap Range(sampleHeaders)
    IN IterRows(file.rows, 1, sampleHeaders, allowed, cols,
                resumeGene = NoGene, resumeGene, resumeIdx)

----------------------------------------------------------------------------
(* models.py and repositories.py: the tables, the dimension cache and the  *)
(* get-or-create functions as one session runs them, each call whole.      *)

\* Python's None for a surrogate key (repositories.py:120, 134; a nullable foreign key)
NoKey == 0

\* the tables of models.py, each a set of rows; a dimension row is [nk, key] with
\* nk the natural key of the table's unique constraint
EmptyTables ==
    [studies |-> {}, platforms |-> {}, illnesses |-> {}, genes |-> {},
     samples |-> {}, facts |-> {}, state |-> {}, corr |-> {}]

\* DimensionCache (repositories.py:28-34): five dicts, natural key -> surrogate key
EmptyCache ==
    [studies |-> {}, platforms |-> {}, illnesses |-> {}, genes |-> {}, samples |-> {}]

MaxOf(S) == IF S = {} THEN 0 ELSE CHOOSE m \in S : \A x \in S : x <= m

\* primary_key=True, autoincrement=True (models.py:18, 27, 37, 46, 58): the key of a
\* new row is one more than the largest key among the rows
NextKey(rows) == MaxOf({r.key : r \in rows}) + 1

CacheHas(dict, nk) == \E e \in dict : e.nk = nk

CacheGet(dict, nk) == (CHOOSE e \in dict : e.nk = nk).key

CachePut(dict, nk, key) == {e \in dict : e.nk # nk} \cup {[nk |-> nk, key |-> key]}

CachePop(dict, nk) == {e \in dict : e.nk # nk}

Entries(rows) == {[nk |-> r.nk, key |-> r.key] : r \in rows}

\* bootstrap_cache (repositories.py:37-54)
BootstrapCache(t) ==
    [studies |-> Entries(t.studies), platforms |-> Entries(t.platforms),
     illnesses |-> Entries(t.illnesses), genes |-> Entries(t.genes),
     samples |-> Entries(t.samples)]

\* what a get-or-create call leaves: the tables, the cache, the key it returns, and
\* whether it raised (IntegrityError of a flush that breaks a unique constraint)
Result(t, c, key, raised) == [t |-> t, c |-> c, key |-> key, raised |-> raised]

\* get_or_create_study (repositories.py:57-65): the cache, else an INSERT
GetOrCreateStudy(t, c, gse_accession) ==
    IF CacheHas(c.studies, gse_accession)
    THEN Result(t, c, CacheGet(c.studies, gse_accession), FALSE)
    ELSE IF \E r \in t.studies : r.nk = gse_accession
         THEN Result(t, c, NoKey, TRUE)
         ELSE LET key == NextKey(t.studies)
              IN Result([t EXCEPT !.studies = @ \cup {[nk |-> gse_accession, key |-> key]}],
                        [c EXCEPT !.studies = CachePut(@, gse_accession, key)],
                        key, FALSE)

\* _get_or_create_unique_dimension (repositories.py:68-115) on table f
\* ("genes", "platforms" or "illnesses"): the cache, else a SELECT, else an INSERT.
\* Within one session the SELECT sees every row the INSERT could conflict with.
GetOrCreateUniqueDimension(t, c, f, value) ==
    IF CacheHas(c[f], value)
    THEN Result(t, c, CacheGet(c[f], value), FALSE)
    ELSE IF \E r \in t[f] : r.nk = value
         THEN LET key == (CHOOSE r \in t[f] : r.nk = value).key
              IN Result(t, [c EXCEPT ![f] = CachePut(@, value, key)], key, FALSE)
         ELSE LET key == NextKey(t[f])
              IN Result([t EXCEPT ![f] = @ \cup {[nk |-> value, key |-> key]}],
                        [c EXCEPT ![f] = CachePut(@, value, key)],
                        key, FALSE)

\* get_or_create_platform (repositories.py:118-129)
GetOrCreatePlatform(t, c, accession) ==
    IF accession = "" \/ accession = UNKNOWN_VALUE
    THEN Result(t, c, NoKey, FALSE)
    ELSE GetOrCreateUniqueDimension(t, c, "platforms", accession)

\* get_or_create_illness (repositories.py:132-143)
GetOrCreateIllness(t, c, label) ==
    IF label = "" \/ label = UNKNOWN_VALUE
    THEN Result(t, c, NoKey, FALSE)
    ELSE GetOrCreateUniqueDimension(t, c, "illnesses", label)

\* a get_or_create_gene that hands out a key without writing the row
GetOrCreateGeneWithoutRow(t, c, ensembl_id) ==
    IF CacheHas(c.genes, ensembl_id)
    THEN Result(t, c, CacheGet(c.genes, ensembl_id), FALSE)
    ELSE LET key == MaxOf({e.key : e \in c.genes}) + 1
         IN Result(t, [c EXCEPT !.genes = CachePut(@, ensembl_id, key)], key, FALSE)

\* get_or_create_gene (repositories.py:146-155)
GetOrCreateGene(t, c, ensembl_id) ==
    GetOrCreateUniqueDimension(t, c, "genes", ensembl_id)

\* a merge that leaves age and sex of an existing row alone
MergeSampleKeysOnly(dim, sample, platform_key, illness_key) ==
    [dim EXCEPT
        !.platform_key = IF platform_key # NoKey /\ @ # platform_key THEN platform_key ELSE @,
        !.illness_key = IF illness_key # NoKey /\ @ # illness_key THEN illness_key ELSE @]

\* the merge of a record into an existing sample row (repositories.py:174-190)
MergeSample(dim, sample, platform_key, illness_key) ==
    [dim EXCEPT
        !.platform_key = IF platform_key # NoKey /\ @ # platform_key THEN platform_key ELSE @,
        !.illness_key = IF illness_key # NoKey /\ @ # illness_key THEN illness_key ELSE @,
        !.age = IF sample.age # "" /\ sample.age # UNKNOWN_VALUE /\ (@ = "" \/ @ = UNKNOWN_VALUE)
                THEN sample.age ELSE @,
        !.sex = IF sample.sex # "" /\ sample.sex # UNKNOWN_VALUE /\ (@ = "" \/ @ = UNKNOWN_VALUE)
                THEN sample.sex ELSE @]

\* the row of a new sample (repositories.py:204-211)
NewSample(nk, key, sample, platform_key, illness_key) ==
    [nk |-> nk, key |-> key, platform_key |-> platform_key, illness_key |-> illness_key,
     age |-> IF sample.age = "" THEN UNKNOWN_VALUE ELSE sample.age,
     sex |-> IF sample.sex = "" THEN UNKNOWN_VALUE ELSE sample.sex]

\* get_or_create_sample (repositories.py:158-221); the natural key is
\* (gsm_accession, study_key), uq_sample_per_study of models.py:54-56
GetOrCreateSample(t, c, sample, study_key) ==
    LET nk == <<sample.gsm_accession, study_key>>
        hit == CacheHas(c.samples, nk)
        found == hit /\ \E r \in t.samples : r.key = CacheGet(c.samples, nk)
        c1 == IF hit /\ ~found THEN [c EXCEPT !.samples = CachePop(@, nk)] ELSE c
        p == GetOrCreatePlatform(t, c1, sample.platform_accession)
        i == GetOrCreateIllness(p.t, p.c, sample.illness_label)
    IN IF found
       THEN LET dim == CHOOSE r \in t.samples : r.key = CacheGet(c.samples, nk)
                merged == MergeSample(dim, sample, p.key, i.key)
            IN Result([i.t EXCEPT !.samples = (@ \ {dim}) \cup {merged}], i.c, dim.key, FALSE)
       ELSE IF \E r \in t.samples : r.nk = nk
            THEN Result(i.t, i.c, NoKey, TRUE)
            ELSE LET key == NextKey(t.samples)
                 IN Result([i.t EXCEPT !.samples =
                               @ \cup {NewSample(nk, key, sample, p.key, i.key)}],
                           [i.c EXCEPT !.samples = CachePut(@, nk, key)],
                           key, FALSE)

----------------------------------------------------------------------------
(* repositories.py, pipeline.py and correlation.py: the resume state, the  *)
(* expression facts and the correlation replace of one study.              *)

\* upsert_state (repositories.py:224-251)
UpsertState(t, study_accession, last_gene, last_sample_index, metadata_loaded) ==
    [t EXCEPT !.state =
        {r \in @ : r.study_accession # study_accession} \cup
        {[study_accession |-> study_accession,
          last_processed_gene |-> last_gene,
          last_sample_index |-> last_sample_index,
          metadata_loaded |-> IF metadata_loaded THEN 1 ELSE 0]}]

\* a clear_state that leaves the row in place
ClearStateKeepsRow(t, study_accession) == t

\* clear_state (repositories.py:254-257)
ClearState(t, study_accession) ==
    [t EXCEPT !.state = {r \in @ : r.study_accession # study_accession}]

\* _load_resume_state (pipeline.py:106-110)
LoadResumeState(t, accession) ==
    IF \E r \in t.state : r.study_accession = accession
    THEN LET r == CHOOSE x \in t.state : x.study_accession = accession
         IN [metadata_loaded |-> r.metadata_loaded # 0,
             gene |-> r.last_processed_gene, index |-> r.last_sample_index]
    ELSE [metadata_loaded |-> FALSE, gene |-> NoGene, index |-> 0]

\* _load_existing_expression_keys (pipeline.py:113-119)
LoadExistingExpressionKeys(t, study_key) ==
    {<<f.sample_key, f.gene_key>> : f \in {x \in t.facts : x.study_key = study_key}}

\* gene_expression_by_sample[gene_key][sample_accession] = value
\* (pipeline.py:139, 247): a later value replaces an earlier one
MatrixPut(matrix, gene_key, sample, value) ==
    {e \in matrix : ~(e.gene_key = gene_key /\ e.sample = sample)}
        \cup {[gene_key |-> gene_key, sample |-> sample, value |-> value]}

\* a resumed pass that starts from an empty matrix
LoadNoExpressionMatrix(t, study_key, sample_key_map) == {}

\* _load_existing_expression_matrix (pipeline.py:122-140); sample_key_map is the
\* dict sample accession -> sample key of pipeline.py:198-209
LoadExistingExpressionMatrix(t, study_key, sample_key_map) ==
    {[gene_key |-> f.gene_key,
      sample |-> (CHOOSE e \in sample_key_map : e.key = f.sample_key).nk,
      value |-> f.expression_value] :
        f \in {x \in t.facts : /\ x.study_key = study_key
                               /\ \E e \in sample_key_map : e.key = x.sample_key}}

\* a FactExpression (pipeline.py:252-257)
FactExpression(sample_key, gene_key, study_key, value) ==
    [sample_key |-> sample_key, gene_key |-> gene_key, study_key |-> study_key,
     expression_value |-> value]

SameTriple(f, g) ==
    f.sample_key = g.sample_key /\ f.gene_key = g.gene_key /\ f.study_key = g.study_key

\* uq_expression_fact (models.py:74-76): the flush of a batch raises IntegrityError
FactsBreakUnique(t, batch) ==
    \E i \in DOMAIN batch :
        \/ \E f \in t.facts : SameTriple(f, batch[i])
        \/ \E j \in DOMAIN batch : j # i /\ SameTriple(batch[j], batch[i])

\* bulk_insert_expression_records (repositories.py:260-264)
BulkInsertExpressionRecords(t, batch) == [t EXCEPT !.facts = @ \cup Range(batch)]

\* the writes of one batch commit (pipeline.py:263-271, 275-283): the facts and
\* the cursor, in one transaction
CommitBatch(t, batch, study_accession, last_gene, last_sample) ==
    UpsertState(BulkInsertExpressionRecords(t, batch),
                study_accession, last_gene, last_sample, TRUE)

\* correlation.py:65
MIN_SAMPLES_FOR_CORRELATION == 3

\* itertools.combinations(gene_keys, 2) over the sorted gene keys
\* (correlation.py:113, 116), taken as ordered pairs of distinct keys
GenePairsBothOrders(gene_keys) == {w \in gene_keys \X gene_keys : w[1] # w[2]}

\* itertools.combinations(gene_keys, 2) over the sorted gene keys
\* (correlation.py:113, 116)
GenePairs(gene_keys) == {w \in gene_keys \X gene_keys : w[1] < w[2]}

\* whether spearmanr gives NaN as the p-value of two series of n values that
\* are not constant: it does below three values, in the fallback
\* (correlation.py:52-54) as in SciPy, whose t statistic has n - 2 degrees of
\* freedom; rho is NaN only for a constant series (correlation.py:42-43, 50-51)
SpearmanrPvalueIsNan(n) == n < 3

\* compute_gene_pair_correlations (correlation.py:91-160). The matrix is the set
\* of its cells, the illness map the set of its items with NoKey for None, and
\* the result the set of the records, each with the series it was computed from
\* in the place of rho, p and q.
ComputeGenePairCorrelations(matrix, sample_illness_map, study_key, min_samples) ==
    LET illness_keys == {e.key : e \in sample_illness_map} \ {NoKey}
        cohort(ik) == {e.nk : e \in {x \in sample_illness_map : x.key = ik}}
        gene_keys == {e.gene_key : e \in matrix}
        has(g, s) == \E e \in matrix : e.gene_key = g /\ e.sample = s
        val(g, s) == (CHOOSE e \in matrix : e.gene_key = g /\ e.sample = s).value
        shared(ik, a, b) == {x \in cohort(ik) : has(a, x) /\ has(b, x)}
    IN {[gene_a_key |-> q[2][1], gene_b_key |-> q[2][2], illness_key |-> q[1],
         study_key |-> study_key,
         n_samples |-> Cardinality(shared(q[1], q[2][1], q[2][2])),
         series |-> {<<x, val(q[2][1], x), val(q[2][2], x)>> : x \in shared(q[1], q[2][1], q[2][2])}] :
            q \in {w \in illness_keys \X GenePairs(gene_keys) :
                    /\ Cardinality(cohort(w[1])) >= min_samples
                    /\ Cardinality(shared(w[1], w[2][1], w[2][2])) >= min_samples
                    /\ Cardinality({val(w[2][1], x) : x \in shared(w[1], w[2][1], w[2][2])}) >= 2
                    /\ Cardinality({val(w[2][2], x) : x \in shared(w[1], w[2][1], w[2][2])}) >= 2
                    /\ ~SpearmanrPvalueIsNan(Cardinality(shared(w[1], w[2][1], w[2][2])))}}

\* the correlation replace (pipeline.py:285-292; repositories.py:267-278)
ReplaceCorrelations(t, study_key, correlations) ==
    [t EXCEPT !.corr = {r \in @ : r.study_key # study_key} \cup correlations]

\* _process_metadata before its commit (pipeline.py:150-165): the study, then every
\* sample of the metadata file; key is the study key
ProcessMetadata(t, c, samples) ==
    LET st == GetOrCreateStudy(t, c, samples[1].study_accession)
        f[k \in 0..Len(samples)] ==
            IF k = 0 THEN st
            ELSE IF f[k - 1].raised THEN f[k - 1]
                 ELSE LET r == GetOrCreateSample(f[k - 1].t, f[k - 1].c, samples[k], st.key)
                      IN Result(r.t, r.c, st.key, r.raised)
    IN f[Len(samples)]

\* the dict sample accession -> illness key (pipeline.py:223-230); key is unused
SampleIllnessMap(t, c, samples) ==
    LET f[k \in 0..Len(samples)] ==
            IF k = 0 THEN [t |-> t, c |-> c, map |-> {}]
            ELSE LET r == GetOrCreateIllness(f[k - 1].t, f[k - 1].c, samples[k].illness_label)
                 IN [t |-> r.t, c |-> r.c,
                     map |-> CachePut(f[k - 1].map, samples[k].gsm_accession, r.key)]
    IN f[Len(samples)]

----------------------------------------------------------------------------
(* SpecReader: one call of iter_filtered_expression, consumed row by row.  *)

RdGenes == {"g1", "g2", "g3"}

RdAllowed == {"g1", "g2"}

RdHeaders == {<<"gene", "S1", "S2">>, <<"gene", "S3", "S1">>, <<"id", "S1">>}

RdRowVals == {<<"1.0", "2.5">>, <<"NA", "1.0">>}

RdRows == [gene : RdGenes \cup {""}, vals : RdRowVals]

RdFiles ==
    [header : RdHeaders,
     rows : UNION {[1..n -> RdRows] : n \in 0..MaxRows}]

RdInit ==
    /\ rdIn \in [file : RdFiles,
                 sampleCols : {{"S1", "S2"}, {"S2"}, {}},
                 resumeGene : RdGenes \cup {NoGene},
                 resumeIdx : 0..2]
    /\ rdIn.resumeGene = NoGene => rdIn.resumeIdx = 0
    /\ rdPc = "new"
    /\ rdOut = <<>>
    /\ SmOff
    /\ StOff
    /\ DmOff
    /\ RnOff
    /\ CrOff
    /\ RbOff
    /\ LdOff
    /\ ClOff
    /\ CpOff
    /\ MdOff
    /\ CkOff
    /\ WkOff

RdFrame == UNCHANGED <<smVars, stVars, dmVars, rnVars, crVars, rbVars, ldVars, clVars, cpVars, mdVars, ckVars, wkVars>>

RdStream ==
    IterFilteredExpression(rdIn.file, RdAllowed, rdIn.sampleCols,
                           rdIn.resumeGene, rdIn.resumeIdx)

\* the first next(): the header checks pass and the generator starts
RdOpen ==
    /\ rdPc = "new"
    /\ ~ReaderRaises(rdIn.file, rdIn.sampleCols)
    /\ rdPc' = "open"
    /\ UNCHANGED <<rdIn, rdOut>>
    /\ RdFrame

\* the first next(): ExpressionFormatError
RdRaise ==
    /\ rdPc = "new"
    /\ ReaderRaises(rdIn.file, rdIn.sampleCols)
    /\ rdPc' = "failed"
    /\ UNCHANGED <<rdIn, rdOut>>
    /\ RdFrame

\* a next() that yields a row
RdYield ==
    /\ rdPc = "open"
    /\ Len(rdOut) < Len(RdStream)
    /\ rdOut' = Append(rdOut, RdStream[Len(rdOut) + 1])
    /\ UNCHANGED <<rdIn, rdPc>>
    /\ RdFrame

\* the next() that ends the stream
RdStop ==
    /\ rdPc = "open"
    /\ Len(rdOut) = Len(RdStream)
    /\ rdPc' = "exhausted"
    /\ UNCHANGED <<rdIn, rdOut>>
    /\ RdFrame

RdNext == RdOpen \/ RdRaise \/ RdYield \/ RdStop

SpecReader == RdInit /\ [][RdNext]_vars

----------------------------------------------------------------------------
(* SpecSample: one worker's sessions, one after another, each making       *)
(* get_or_create_sample calls for the samples of one study, as             *)
(* _process_metadata does (pipeline.py:154-167).                           *)

SmStudyAccession == "GSE100"

SmGsms == {"GSM1"}

\* the SampleMetadata records a metadata file can carry for a sample
SmSamples ==
    [gsm_accession : SmGsms,
     platform_accession : {"", "GPL1", "GPL2"},
     illness_label : {UNKNOWN_VALUE, "flu", "cold"},
     age : {UNKNOWN_VALUE, "30", "40"},
     sex : {"", "F"}]

\* no row: session.get found nothing
NoRow == [nk |-> <<>>]

SmRowOf(t, gsm) ==
    IF \E r \in t.samples : r.nk[1] = gsm
    THEN CHOOSE r \in t.samples : r.nk[1] = gsm
    ELSE NoRow

SmInit ==
    /\ smSess = EmptyTables
    /\ smCache = EmptyCache
    /\ smLast = [op |-> "open"]
    /\ RdOff
    /\ StOff
    /\ DmOff
    /\ RnOff
    /\ CrOff
    /\ RbOff
    /\ LdOff
    /\ ClOff
    /\ CpOff
    /\ MdOff
    /\ CkOff
    /\ WkOff

SmFrame == UNCHANGED <<rdVars, stVars, dmVars, rnVars, crVars, rbVars, ldVars, clVars, cpVars, mdVars, ckVars, wkVars>>

\* get_or_create_study, then get_or_create_sample for one record
\* (pipeline.py:155, 165)
SmCall(sample) ==
    LET st == GetOrCreateStudy(smSess, smCache, SmStudyAccession)
        r == GetOrCreateSample(st.t, st.c, sample, st.key)
    IN /\ ~st.raised
       /\ ~r.raised
       /\ smSess' = r.t
       /\ smCache' = r.c
       /\ smLast' = [op |-> "call", sample |-> sample,
                     before |-> SmRowOf(smSess, sample.gsm_accession),
                     key |-> r.key]
       /\ SmFrame

\* session.commit() (pipeline.py:167); the session ends and the next one
\* bootstraps its cache from the committed rows (pipeline.py:316-317)
SmReopen ==
    /\ smLast.op # "open"
    /\ smCache' = BootstrapCache(smSess)
    /\ smLast' = [op |-> "open"]
    /\ UNCHANGED smSess
    /\ SmFrame

SmNext == (\E sample \in SmSamples : SmCall(sample)) \/ SmReopen

SpecSample == SmInit /\ [][SmNext]_vars

----------------------------------------------------------------------------
(* SpecStudy: _process_single_study (pipeline.py:306-358) of one study,    *)
(* run by one worker at a time; a pass may fail or the process may die at  *)
(* any point, and the study is then run again on the same files.           *)

\* the largest configured batch_size
MaxBatch == 3

\* StudyFiles.study_accession (pipeline.py:65)
StStudyAccession == "GSE1"

\* the SampleMetadata records of a metadata file with two samples, one of them
\* without illness
StTwoSamples ==
    <<[gsm_accession |-> "S1", study_accession |-> "GSE1", platform_accession |-> "GPL1",
       illness_label |-> "flu", age |-> "30", sex |-> "F"],
      [gsm_accession |-> "S2", study_accession |-> "GSE1", platform_accession |-> UNKNOWN_VALUE,
       illness_label |-> UNKNOWN_VALUE, age |-> UNKNOWN_VALUE, sex |-> UNKNOWN_VALUE]>>

\* the SampleMetadata records of a metadata file with three samples of one illness
StThreeSamples ==
    [k \in 1..3 |->
        [gsm_accession |-> <<"S1", "S2", "S3">>[k], study_accession |-> "GSE1",
         platform_accession |-> "GPL1", illness_label |-> "flu", age |-> "30", sex |-> "F"]]

\* the SampleMetadata records load_metadata returns for the study's metadata
\* file (pipeline.py:147)
StSamples == stIn.samples

\* the gene filter of the run (pipeline.py:363)
StGeneFilter == {"g1", "g2"}

StGoodHeader == <<"gene", "S1", "S2">>

\* the expression files: one data row per gene, as in an expression matrix; the
\* second header shares no sample with the metadata
StFiles ==
    {f \in [header : {StGoodHeader, <<"gene", "S3">>},
            rows : UNION {[1..n -> [gene : RdGenes, vals : RdRowVals]] : n \in 0..MaxRows}] :
        /\ \A i, j \in DOMAIN f.rows : i # j => f.rows[i].gene # f.rows[j].gene
        /\ f.header # StGoodHeader => f.rows = <<>>}

\* the locals of _process_single_study and _process_expression
StNoLocals ==
    [resume_gene |-> NoGene, resume_index |-> 0, study_key |-> NoKey,
     sample_key_map |-> {}, existing_facts |-> {}, matrix |-> {},
     sample_illness_map |-> {}, pos |-> 0, batch |-> <<>>,
     last_gene |-> NoGene, last_sample |-> 0]

StInit ==
    /\ stIn \in [file : StFiles, batch_size : 1..MaxBatch, samples : {StTwoSamples}]
    /\ stDb = EmptyTables
    /\ stSess = EmptyTables
    /\ stCache = EmptyCache
    /\ stPc = "new"
    /\ stL = StNoLocals
    /\ stCompleted = FALSE
    /\ RdOff
    /\ SmOff
    /\ DmOff
    /\ RnOff
    /\ CrOff
    /\ RbOff
    /\ LdOff
    /\ ClOff
    /\ CpOff
    /\ MdOff
    /\ CkOff
    /\ WkOff

StFrame == UNCHANGED <<rdVars, smVars, dmVars, rnVars, crVars, rbVars, ldVars, clVars, cpVars, mdVars, ckVars, wkVars>>

StExpected == {StSamples[k].gsm_accession : k \in DOMAIN StSamples}

\* the stream the pass reads (pipeline.py:235-241)
StStream ==
    IterFilteredExpression(stIn.file, StGeneFilter, StExpected,
                           stL.resume_gene, stL.resume_index)

StRunning == stPc \in {"metadata", "state", "expression", "rows", "correlation", "clear"}

\* the pass ends without its pending writes: session.rollback() of the handler
\* (pipeline.py:346-349) or the rollback of the closing session (pipeline.py:316)
StAbort(pc) ==
    /\ stSess' = stDb
    /\ stCache' = EmptyCache
    /\ stL' = StNoLocals
    /\ stPc' = pc
    /\ UNCHANGED <<stIn, stDb, stCompleted>>

\* a pass begins: a session, its cache and the resume state (pipeline.py:316-320)
StStart ==
    /\ stPc \in {"new", "failed", "crashed", "done"}
    /\ stSess' = stDb
    /\ stCache' = BootstrapCache(stDb)
    /\ LET rs == LoadResumeState(stDb, StStudyAccession)
       IN stL' = [StNoLocals EXCEPT !.resume_gene = rs.gene, !.resume_index = rs.index]
    /\ stPc' = "metadata"
    /\ UNCHANGED <<stIn, stDb, stCompleted>>
    /\ StFrame

\* _process_metadata with its commit (pipeline.py:323-325, 143-182)
StMetadata ==
    /\ stPc = "metadata"
    /\ LET r == ProcessMetadata(stSess, stCache, StSamples)
       IN IF r.raised
          THEN StAbort("failed")
          ELSE /\ stSess' = r.t
               /\ stDb' = r.t
               /\ stCache' = r.c
               /\ stL' = [stL EXCEPT !.study_key = r.key]
               /\ stPc' = "state"
               /\ UNCHANGED <<stIn, stCompleted>>
    /\ StFrame

\* a state row written after the metadata that starts the cursor anew
StStateResetsCursor ==
    /\ stPc = "state"
    /\ LET t == UpsertState(stSess, StStudyAccession, NoGene, 0, TRUE)
       IN stSess' = t /\ stDb' = t
    /\ stPc' = "expression"
    /\ UNCHANGED <<stIn, stCache, stL, stCompleted>>
    /\ StFrame

\* the state row written after the metadata (pipeline.py:326-333)
StState ==
    /\ stPc = "state"
    /\ LET t == UpsertState(stSess, StStudyAccession, stL.resume_gene, stL.resume_index, TRUE)
       IN stSess' = t /\ stDb' = t
    /\ stPc' = "expression"
    /\ UNCHANGED <<stIn, stCache, stL, stCompleted>>
    /\ StFrame

\* _process_expression up to its loop (pipeline.py:198-233) and the reader's
\* checks at the loop's first next()
StPrepare ==
    /\ stPc = "expression"
    /\ LET study_key == stL.study_key
           missing == \E k \in DOMAIN StSamples :
                          ~CacheHas(stCache.samples, <<StSamples[k].gsm_accession, study_key>>)
           sample_key_map ==
               {[nk |-> StSamples[k].gsm_accession,
                 key |-> CacheGet(stCache.samples, <<StSamples[k].gsm_accession, study_key>>)] :
                    k \in DOMAIN StSamples}
           existing == LoadExistingExpressionKeys(stSess, study_key)
           ill == SampleIllnessMap(stSess, stCache, StSamples)
       IN IF missing \/ ReaderRaises(stIn.file, StExpected)
          THEN StAbort("failed")
          ELSE /\ stL' = [stL EXCEPT
                            !.sample_key_map = sample_key_map,
                            !.existing_facts = existing,
                            !.matrix = IF existing # {}
                                       THEN LoadExistingExpressionMatrix(stSess, study_key,
                                                                         sample_key_map)
                                       ELSE {},
                            !.sample_illness_map = ill.map,
                            !.last_gene = stL.resume_gene,
                            !.last_sample = stL.resume_index]
               /\ stSess' = ill.t
               /\ stCache' = ill.c
               /\ stPc' = "rows"
               /\ UNCHANGED <<stIn, stDb, stCompleted>>
    /\ StFrame

\* one turn of the loop over the stream (pipeline.py:235-272)
StRow ==
    /\ stPc = "rows"
    /\ stL.pos < Len(StStream)
    /\ LET row == StStream[stL.pos + 1]
           g == GetOrCreateGene(stSess, stCache, row.gene_id)
           sample_key == CacheGet(stL.sample_key_map, row.sample_accession)
           cache == [g.c EXCEPT !.samples =
                        CachePut(@, <<row.sample_accession, stL.study_key>>, sample_key)]
           seen == <<sample_key, g.key>> \in stL.existing_facts
           batch == IF seen THEN stL.batch
                    ELSE Append(stL.batch,
                                FactExpression(sample_key, g.key, stL.study_key,
                                               row.expression_value))
           full == ~seen /\ Len(batch) >= stIn.batch_size
           locals == [stL EXCEPT
                        !.pos = @ + 1,
                        !.last_gene = row.gene_id,
                        !.last_sample = row.sample_index,
                        !.matrix = MatrixPut(@, g.key, row.sample_accession,
                                             row.expression_value),
                        !.batch = IF full THEN <<>> ELSE batch]
       IN IF full /\ FactsBreakUnique(g.t, batch)
          THEN StAbort("failed")
          ELSE /\ stL' = locals
               /\ stCache' = cache
               /\ stSess' = IF full
                            THEN CommitBatch(g.t, batch, StStudyAccession,
                                             row.gene_id, row.sample_index)
                            ELSE g.t
               /\ stDb' = IF full THEN stSess' ELSE stDb
               /\ UNCHANGED <<stIn, stPc, stCompleted>>
    /\ StFrame

\* an end of the loop that goes on to the correlations with the last batch unwritten
StTailWithoutCommit ==
    /\ stPc = "rows"
    /\ stL.pos = Len(StStream)
    /\ stPc' = "correlation"
    /\ UNCHANGED <<stIn, stDb, stSess, stCache, stL, stCompleted>>
    /\ StFrame

\* the stream is exhausted: the last, partial batch (pipeline.py:274-283)
StTail ==
    /\ stPc = "rows"
    /\ stL.pos = Len(StStream)
    /\ IF stL.batch # <<>> /\ FactsBreakUnique(stSess, stL.batch)
       THEN StAbort("failed")
       ELSE /\ stSess' = IF stL.batch # <<>>
                         THEN CommitBatch(stSess, stL.batch, StStudyAccession,
                                          stL.last_gene, stL.last_sample)
                         ELSE stSess
            /\ stDb' = IF stL.batch # <<>> THEN stSess' ELSE stDb
            /\ stL' = [stL EXCEPT !.batch = <<>>]
            /\ stPc' = "correlation"
            /\ UNCHANGED <<stIn, stCache, stCompleted>>
    /\ StFrame

\* the correlation replace and its commit (pipeline.py:285-293)
StCorrelation ==
    /\ stPc = "correlation"
    /\ LET t == ReplaceCorrelations(stSess, stL.study_key,
                    ComputeGenePairCorrelations(stL.matrix, stL.sample_illness_map,
                                                stL.study_key, MIN_SAMPLES_FOR_CORRELATION))
       IN stSess' = t /\ stDb' = t
    /\ stPc' = "clear"
    /\ UNCHANGED <<stIn, stCache, stL, stCompleted>>
    /\ StFrame

\* the pass succeeded: clear_state and commit (pipeline.py:350-352)
StClear ==
    /\ stPc = "clear"
    /\ LET t == ClearState(stSess, StStudyAccession)
       IN stSess' = t /\ stDb' = t
    /\ stPc' = "done"
    /\ stCompleted' = TRUE
    /\ UNCHANGED <<stIn, stCache, stL>>
    /\ StFrame

\* an exception ends the pass (a storage error, a format error): the pending
\* writes are rolled back (pipeline.py:346-349) and the run goes on
StFail ==
    /\ StRunning
    /\ StAbort("failed")
    /\ StFrame

\* the process dies: the open transaction is lost with it
StCrash ==
    /\ StRunning
    /\ StAbort("crashed")
    /\ StFrame

StNext ==
    \/ StStart \/ StMetadata \/ StState \/ StPrepare \/ StRow \/ StTail
    \/ StCorrelation \/ StClear \/ StFail \/ StCrash

SpecStudy == StInit /\ [][StNext]_vars

\* the expression files without the restriction to one data row per gene
StAnyFiles ==
    {f \in [header : {StGoodHeader, <<"gene", "S3">>},
            rows : UNION {[1..n -> [gene : RdGenes, vals : RdRowVals]] : n \in 0..MaxRows}] :
        f.header # StGoodHeader => f.rows = <<>>}

StInitAnyFile ==
    /\ stIn \in [file : StAnyFiles, batch_size : 1..MaxBatch, samples : {StTwoSamples}]
    /\ stDb = EmptyTables
    /\ stSess = EmptyTables
    /\ stCache = EmptyCache
    /\ stPc = "new"
    /\ stL = StNoLocals
    /\ stCompleted = FALSE
    /\ RdOff
    /\ SmOff
    /\ DmOff
    /\ RnOff
    /\ CrOff
    /\ RbOff
    /\ LdOff
    /\ ClOff
    /\ CpOff
    /\ MdOff
    /\ CkOff
    /\ WkOff

\* _process_single_study on a file that may name a gene in several data rows
SpecStudyAnyFile == StInitAnyFile /\ [][StNext]_vars

\* the data rows of the files of three samples: two rows of three numbers and
\* one with a cell that is no number
StCohortRowVals == {<<"1.0", "2.5", "1.0">>, <<"2.5", "1.0", "1.0">>, <<"1.0", "NA", "2.5">>}

\* expression files for the three samples, one data row per gene
StCohortFiles ==
    {f \in [header : {<<"gene", "S1", "S2", "S3">>},
            rows : UNION {[1..n -> [gene : StGeneFilter, vals : StCohortRowVals]] :
                             n \in 0..Cardinality(StGeneFilter)}] :
        \A i, j \in DOMAIN f.rows : i # j => f.rows[i].gene # f.rows[j].gene}

StInitCohort ==
    /\ stIn \in [file : StCohortFiles, batch_size : 1..MaxBatch, samples : {StThreeSamples}]
    /\ stDb = EmptyTables
    /\ stSess = EmptyTables
    /\ stCache = EmptyCache
    /\ stPc = "new"
    /\ stL = StNoLocals
    /\ stCompleted = FALSE
    /\ RdOff
    /\ SmOff
    /\ DmOff
    /\ RnOff
    /\ CrOff
    /\ RbOff
    /\ LdOff
    /\ ClOff
    /\ CpOff
    /\ MdOff
    /\ CkOff
    /\ WkOff

\* _process_single_study on a study of three samples of one illness, whose genes
\* can correlate
SpecStudyCohort == StInitCohort /\ [][StNext]_vars

----------------------------------------------------------------------------
(* SpecDim: the get-or-create calls of concurrent study workers            *)
(* (pipeline.py:383-393), each with its own session and its own cache      *)
(* (pipeline.py:316-317), against one database. A call runs statement by   *)
(* statement, so that the statements of the workers interleave.            *)
(*                                                                         *)
(* A row is [kind, nk, key, owner]: owner is "db" for a committed row and  *)
(* the worker for a row its open transaction has inserted. A transaction   *)
(* sees the committed rows and its own. The sample records of this         *)
(* specification carry no platform and no illness, so that                 *)
(* get_or_create_sample makes no nested call (repositories.py:119, 133).   *)
(* The tables share nothing but SQLite's write lock, which only delays a   *)
(* statement, so a behaviour follows the calls on one table, dmKind.       *)

DmWorkers == {"w1", "w2"}

\* the tables that go through _get_or_create_unique_dimension
DmUniqueKinds == {"genes", "platforms", "illnesses"}

DmKinds == DmUniqueKinds \cup {"studies", "samples"}

\* the natural keys in use, per table
DmNaturalKeys == {"k1", "k2"}

\* the most rows a table may come to hold
MaxDimRows == 2

DmNoCall == [kind |-> "none"]

DmInit ==
    /\ dmDialect \in {"sqlite", "other"}
    /\ dmKind \in DmKinds
    /\ dmRows = {}
    /\ dmLock = "free"
    /\ dmCache = [w \in DmWorkers |-> {}]
    /\ dmPc = [w \in DmWorkers |-> "closed"]
    /\ dmCall = [w \in DmWorkers |-> DmNoCall]
    /\ dmRet = [w \in DmWorkers |-> DmNoCall]
    /\ RdOff
    /\ SmOff
    /\ StOff
    /\ RnOff
    /\ CrOff
    /\ RbOff
    /\ LdOff
    /\ ClOff
    /\ CpOff
    /\ MdOff
    /\ CkOff
    /\ WkOff

DmFrame == UNCHANGED <<rdVars, smVars, stVars, rnVars, crVars, rbVars, ldVars, clVars, cpVars, mdVars, ckVars, wkVars>>

\* the rows worker w's transaction sees
DmVisible(w) == {r \in dmRows : r.owner \in {"db", w}}

DmVisibleRow(w, kind, nk) == {r \in DmVisible(w) : r.kind = kind /\ r.nk = nk}

\* a unique index that rejects nothing
UniqueIndexMissing(rows, kind, nk) == FALSE

\* the unique constraint on a table's natural key (models.py:19, 28, 38, 47, 54-56):
\* whether rows hold a row that a second row for (kind, nk) would conflict with
UniqueConflict(rows, kind, nk) == \E r \in rows : r.kind = kind /\ r.nk = nk

\* autoincrement (models.py:18, 27, 37, 46, 58): a key that no row of the table
\* holds, committed or not; the least one, which keeps the keys in a finite range
DmNextKey(kind) ==
    LET used == {r.key : r \in {x \in dmRows : x.kind = kind}}
    IN CHOOSE k \in 1..(Cardinality(used) + 1) :
           k \notin used /\ \A j \in 1..(k - 1) : j \in used

\* a write statement of worker w can run: SQLite has one writer, whose lock is held
\* to the end of its transaction; another engine makes the writer wait only for an
\* uncommitted row of another transaction with the same unique key
DmCanWrite(w, kind, nk) ==
    IF dmDialect = "sqlite"
    THEN dmLock \in {"free", w}
    ELSE ~UniqueConflict({r \in dmRows : r.owner \notin {"db", w}}, kind, nk)

DmLockAfterWrite(w) == IF dmDialect = "sqlite" THEN w ELSE dmLock

DmReturn(w, key, how) ==
    /\ dmCache' = [dmCache EXCEPT ![w] =
                      {e \in @ : ~(e.kind = dmCall[w].kind /\ e.nk = dmCall[w].nk)}
                          \cup {[kind |-> dmCall[w].kind, nk |-> dmCall[w].nk, key |-> key]}]
    /\ dmRet' = [dmRet EXCEPT ![w] =
                    [kind |-> dmCall[w].kind, nk |-> dmCall[w].nk, key |-> key,
                     how |-> how, existed |-> dmCall[w].existed]]
    /\ dmCall' = [dmCall EXCEPT ![w] = DmNoCall]
    /\ dmPc' = [dmPc EXCEPT ![w] = "ready"]

\* IntegrityError leaves the call and the worker: nothing catches it
\* (pipeline.py:346), the session closes (pipeline.py:316) and rolls back
DmRaise(w) ==
    /\ dmRows' = {r \in dmRows : r.owner # w}
    /\ dmLock' = IF dmLock = w THEN "free" ELSE dmLock
    /\ dmCache' = [dmCache EXCEPT ![w] = {}]
    /\ dmRet' = [dmRet EXCEPT ![w] =
                    [kind |-> dmCall[w].kind, nk |-> dmCall[w].nk, key |-> NoKey,
                     how |-> "raised", existed |-> dmCall[w].existed]]
    /\ dmCall' = [dmCall EXCEPT ![w] = DmNoCall]
    /\ dmPc' = [dmPc EXCEPT ![w] = "closed"]

\* a worker starts: session_factory() and bootstrap_cache (pipeline.py:316-317)
DmOpen(w) ==
    /\ dmPc[w] = "closed"
    /\ dmCache' = [dmCache EXCEPT ![w] =
                      {[kind |-> r.kind, nk |-> r.nk, key |-> r.key] :
                          r \in {x \in dmRows : x.owner = "db"}}]
    /\ dmPc' = [dmPc EXCEPT ![w] = "ready"]
    /\ UNCHANGED <<dmDialect, dmKind, dmRows, dmLock, dmCall, dmRet>>
    /\ DmFrame

\* a get-or-create call begins with the cache (repositories.py:58-59, 78-79,
\* 166-199); a miss goes on to the SELECT (unique dimensions) or straight to the
\* INSERT (study, sample). For a sample the hit is followed by session.get, and a
\* key whose row is gone is dropped from the cache (repositories.py:168-170).
DmBegin(w, kind, nk) ==
    /\ dmPc[w] = "ready"
    /\ LET hits == {e \in dmCache[w] : e.kind = kind /\ e.nk = nk}
           hit == hits # {}
           key == (CHOOSE e \in hits : TRUE).key
           gone == kind = "samples" /\ hit /\ ~\E r \in DmVisible(w) : r.kind = kind /\ r.key = key
           call == [kind |-> kind, nk |-> nk, existed |-> DmVisibleRow(w, kind, nk) # {}]
       IN IF hit /\ ~gone
          THEN /\ dmRet' = [dmRet EXCEPT ![w] =
                              [kind |-> kind, nk |-> nk, key |-> key, how |-> "cache",
                               existed |-> call.existed]]
               /\ UNCHANGED <<dmCache, dmPc, dmCall>>
          ELSE /\ dmCache' = [dmCache EXCEPT ![w] = @ \ hits]
               /\ dmCall' = [dmCall EXCEPT ![w] = call]
               /\ dmPc' = [dmPc EXCEPT ![w] =
                              IF kind \in DmUniqueKinds THEN "select" ELSE "insert"]
               /\ UNCHANGED dmRet
    /\ UNCHANGED <<dmDialect, dmKind, dmRows, dmLock>>
    /\ DmFrame

\* the SELECT of _get_or_create_unique_dimension (repositories.py:81-86)
DmSelect(w) ==
    /\ dmPc[w] = "select"
    /\ LET found == DmVisibleRow(w, dmCall[w].kind, dmCall[w].nk)
       IN IF found # {}
          THEN DmReturn(w, (CHOOSE r \in found : TRUE).key, "select")
          ELSE /\ dmPc' = [dmPc EXCEPT ![w] = "insert"]
               /\ UNCHANGED <<dmCache, dmCall, dmRet>>
    /\ UNCHANGED <<dmDialect, dmKind, dmRows, dmLock>>
    /\ DmFrame

\* the INSERT of a unique dimension on SQLite, ON CONFLICT DO NOTHING, and the
\* query that follows it (repositories.py:90-98, 108-115)
DmInsertOrIgnore(w) ==
    /\ dmPc[w] = "insert"
    /\ dmCall[w].kind \in DmUniqueKinds
    /\ dmDialect = "sqlite"
    /\ DmCanWrite(w, dmCall[w].kind, dmCall[w].nk)
    /\ \/ UniqueConflict(DmVisible(w), dmCall[w].kind, dmCall[w].nk)
       \/ Cardinality({r \in dmRows : r.kind = dmCall[w].kind}) < MaxDimRows
    /\ LET kind == dmCall[w].kind
           nk == dmCall[w].nk
           inserted == ~UniqueConflict(DmVisible(w), kind, nk)
           rows == IF inserted
                   THEN dmRows \cup {[kind |-> kind, nk |-> nk, key |-> DmNextKey(kind),
                                      owner |-> w]}
                   ELSE dmRows
           existing == CHOOSE r \in rows : r.owner \in {"db", w} /\ r.kind = kind /\ r.nk = nk
       IN /\ dmRows' = rows
          /\ dmLock' = DmLockAfterWrite(w)
          /\ DmReturn(w, existing.key, IF inserted THEN "insert" ELSE "requery")
    /\ UNCHANGED <<dmDialect, dmKind>>
    /\ DmFrame

\* a plain INSERT and its flush: a unique dimension on another engine
\* (repositories.py:99-106), a study (repositories.py:60-65), a sample
\* (repositories.py:204-221)
DmInsert(w) ==
    /\ dmPc[w] = "insert"
    /\ dmCall[w].kind \in DmUniqueKinds => dmDialect # "sqlite"
    /\ DmCanWrite(w, dmCall[w].kind, dmCall[w].nk)
    /\ \/ UniqueConflict(DmVisible(w), dmCall[w].kind, dmCall[w].nk)
       \/ Cardinality({r \in dmRows : r.kind = dmCall[w].kind}) < MaxDimRows
    /\ LET kind == dmCall[w].kind
           nk == dmCall[w].nk
           key == DmNextKey(kind)
       IN IF UniqueConflict(DmVisible(w), kind, nk)
          THEN DmRaise(w)
          ELSE /\ dmRows' = dmRows \cup {[kind |-> kind, nk |-> nk, key |-> key, owner |-> w]}
               /\ dmLock' = DmLockAfterWrite(w)
               /\ DmReturn(w, key, "insert")
    /\ UNCHANGED <<dmDialect, dmKind>>
    /\ DmFrame

\* session.commit() (pipeline.py:167, 271, 283, 293, 333, 352)
DmCommit(w) ==
    /\ dmPc[w] = "ready"
    /\ \E r \in dmRows : r.owner = w
    /\ dmRows' = {IF r.owner = w THEN [r EXCEPT !.owner = "db"] ELSE r : r \in dmRows}
    /\ dmLock' = IF dmLock = w THEN "free" ELSE dmLock
    /\ UNCHANGED <<dmDialect, dmKind, dmCache, dmPc, dmCall, dmRet>>
    /\ DmFrame

\* the worker ends, its study done or failed: the session closes, what it has
\* not committed is rolled back, and the cache goes with the worker
DmClose(w) ==
    /\ dmPc[w] = "ready"
    /\ dmRows' = {r \in dmRows : r.owner # w}
    /\ dmLock' = IF dmLock = w THEN "free" ELSE dmLock
    /\ dmCache' = [dmCache EXCEPT ![w] = {}]
    /\ dmPc' = [dmPc EXCEPT ![w] = "closed"]
    /\ UNCHANGED <<dmDialect, dmKind, dmCall, dmRet>>
    /\ DmFrame

DmNext ==
    \E w \in DmWorkers :
        \/ DmOpen(w)
        \/ \E nk \in DmNaturalKeys : DmBegin(w, dmKind, nk)
        \/ DmSelect(w)
        \/ DmInsertOrIgnore(w)
        \/ DmInsert(w)
        \/ DmCommit(w)
        \/ DmClose(w)

SpecDim == DmInit /\ [][DmNext]_vars

----------------------------------------------------------------------------
(* SpecRun: run_pipeline (pipeline.py:361-399). Every study directory is   *)
(* submitted to a pool of max_workers threads, each running                *)
(* _process_single_study in a session of its own; run_pipeline takes the   *)
(* results as the futures finish. What a worker writes is not followed     *)
(* here (SpecStudy, SpecDim), only where it stands, whether its            *)
(* transaction holds the write lock of the database, and how it ends.      *)
(* The exceptions are those a worker's code can raise, subclasses of       *)
(* Exception.                                                              *)

\* the study directories that the input directory may hold
RnStudies == {"GSE1", "GSE2", "GSE3"}

\* the most threads the pool is configured with
MaxWorkers == 2

\* the exceptions of the except clause of _process_single_study (pipeline.py:346)
RnHandled == {"MetadataFormatError", "ExpressionFormatError", "StudyProcessingError"}

\* exceptions the clause does not name
RnOther == {"IntegrityError", "FileNotFoundError"}

RnInit ==
    /\ rnMax \in 1..MaxWorkers
    /\ \E dirs \in SUBSET RnStudies :
           /\ rnStatus = [s \in dirs |-> "queued"]
           /\ rnPc = [s \in dirs |-> "none"]
           /\ rnExc = [s \in dirs |-> "none"]
    /\ rnWriter = "free"
    /\ rnMain = "collecting"
    /\ rnSeen = {}
    /\ rnLogged = {}
    /\ RdOff
    /\ SmOff
    /\ StOff
    /\ DmOff
    /\ CrOff
    /\ RbOff
    /\ LdOff
    /\ ClOff
    /\ CpOff
    /\ MdOff
    /\ CkOff
    /\ WkOff

RnFrame == UNCHANGED <<rdVars, smVars, stVars, dmVars, crVars, rbVars, ldVars, clVars, cpVars, mdVars, ckVars, wkVars>>

RnDirs == DOMAIN rnStatus

RnRunning == {s \in RnDirs : rnStatus[s] = "running"}

\* a thread of the pool is free and takes a submitted study (pipeline.py:383-393)
RnStartWorker(s) ==
    /\ s \in RnDirs
    /\ rnStatus[s] = "queued"
    /\ Cardinality(RnRunning) < rnMax
    /\ rnStatus' = [rnStatus EXCEPT ![s] = "running"]
    /\ rnPc' = [rnPc EXCEPT ![s] = "discover"]
    /\ UNCHANGED <<rnMax, rnExc, rnWriter, rnMain, rnSeen, rnLogged>>
    /\ RnFrame

\* discover_study_files has returned and the session is open (pipeline.py:312-320)
RnOpenSession(s) ==
    /\ s \in RnDirs
    /\ rnStatus[s] = "running"
    /\ rnPc[s] = "discover"
    /\ rnPc' = [rnPc EXCEPT ![s] = "metadata"]
    /\ UNCHANGED <<rnMax, rnStatus, rnExc, rnWriter, rnMain, rnSeen, rnLogged>>
    /\ RnFrame

\* a flush of the worker's session writes to the database: the statement waits
\* while the transaction of another worker holds the write lock
RnWrite(s) ==
    /\ s \in RnDirs
    /\ rnStatus[s] = "running"
    /\ rnPc[s] \in {"metadata", "expression", "clear"}
    /\ rnWriter = "free"
    /\ rnWriter' = s
    /\ UNCHANGED <<rnMax, rnStatus, rnPc, rnExc, rnMain, rnSeen, rnLogged>>
    /\ RnFrame

\* session.commit(): after the metadata and the state row (pipeline.py:333),
\* after a batch of facts or the correlations (pipeline.py:271, 283, 293), and
\* after clear_state (pipeline.py:350-352), which ends the study
RnCommit(s) ==
    /\ s \in RnDirs
    /\ rnStatus[s] = "running"
    /\ rnWriter = s
    /\ rnWriter' = "free"
    /\ \/ /\ rnPc[s] = "metadata"
          /\ rnPc' = [rnPc EXCEPT ![s] = "expression"]
          /\ UNCHANGED rnStatus
       \/ /\ rnPc[s] = "expression"
          /\ \E next \in {"expression", "clear"} : rnPc' = [rnPc EXCEPT ![s] = next]
          /\ UNCHANGED rnStatus
       \/ /\ rnPc[s] = "clear"
          /\ rnPc' = [rnPc EXCEPT ![s] = "done"]
          /\ rnStatus' = [rnStatus EXCEPT ![s] = "completed"]
    /\ UNCHANGED <<rnMax, rnExc, rnMain, rnSeen, rnLogged>>
    /\ RnFrame

\* an exception leaves _process_single_study: one the except clause names is
\* rolled back and raised again as StudyProcessingError (pipeline.py:346-349),
\* any other leaves through the with block (pipeline.py:316); both ways the
\* session ends and its transaction with it, and the future holds the exception
RnRaise(s, exc) ==
    /\ s \in RnDirs
    /\ rnStatus[s] = "running"
    /\ exc \in RnHandled => rnPc[s] \in {"metadata", "expression"}
    /\ rnStatus' = [rnStatus EXCEPT ![s] = "failed"]
    /\ rnExc' = [rnExc EXCEPT ![s] = IF exc \in RnHandled THEN "StudyProcessingError" ELSE exc]
    /\ rnPc' = [rnPc EXCEPT ![s] = "done"]
    /\ rnWriter' = IF rnWriter = s THEN "free" ELSE rnWriter
    /\ UNCHANGED <<rnMax, rnMain, rnSeen, rnLogged>>
    /\ RnFrame

\* the collection loop without its try: the exception of the future leaves
\* run_pipeline
RnResultUncaught(s) ==
    /\ s \in RnDirs
    /\ rnMain = "collecting"
    /\ rnStatus[s] \in {"completed", "failed"}
    /\ s \notin rnSeen
    /\ rnSeen' = rnSeen \cup {s}
    /\ rnMain' = IF rnStatus[s] = "failed" THEN "raised" ELSE rnMain
    /\ UNCHANGED <<rnMax, rnStatus, rnPc, rnExc, rnWriter, rnLogged>>
    /\ RnFrame

\* as_completed hands run_pipeline a finished future and future.result() returns
\* or raises what the worker raised, which is logged (pipeline.py:394-399)
RnResult(s) ==
    /\ s \in RnDirs
    /\ rnMain = "collecting"
    /\ rnStatus[s] \in {"completed", "failed"}
    /\ s \notin rnSeen
    /\ rnSeen' = rnSeen \cup {s}
    /\ rnLogged' = IF rnStatus[s] = "failed" THEN rnLogged \cup {s} ELSE rnLogged
    /\ UNCHANGED <<rnMax, rnStatus, rnPc, rnExc, rnWriter, rnMain>>
    /\ RnFrame

\* run_pipeline returns: no study directory (pipeline.py:375-377), or every
\* future taken and the pool shut down (pipeline.py:383, 394)
RnReturn ==
    /\ rnMain = "collecting"
    /\ rnSeen = RnDirs
    /\ rnMain' = "returned"
    /\ UNCHANGED <<rnMax, rnStatus, rnPc, rnExc, rnWriter, rnSeen, rnLogged>>
    /\ RnFrame

RnNext ==
    \/ \E s \in RnStudies :
           \/ RnStartWorker(s)
           \/ RnOpenSession(s)
           \/ RnWrite(s)
           \/ RnCommit(s)
           \/ \E exc \in RnHandled \cup RnOther : RnRaise(s, exc)
           \/ RnResult(s)
    \/ RnReturn

SpecRun == RnInit /\ [][RnNext]_vars

----------------------------------------------------------------------------
(* SpecCorr: the recomputation of a study's gene pair correlations, by its *)
(* three entry points: the end of _process_expression (pipeline.py:285-    *)
(* 293), _compute_and_store_correlations of the correlation ETL            *)
(* (correlation_etl.py:104-185) and _process_single_study of the           *)
(* correlation job (correlation_job.py:49-110). A recomputation runs       *)
(* statement by statement in a session of its own and may fail or die      *)
(* between any two statements. The expression data it reads are its input. *)

\* study keys
CrStudies == {1, 2}

CrEntries == {"pipeline", "etl", "job"}

CrSampleNames == <<"S1", "S2", "S3">>

\* the matrix gene key -> sample -> value with the given rows (gene key, values)
CrMatrixOf(rows) ==
    {[gene_key |-> r[1], sample |-> CrSampleNames[k], value |-> r[2][k]] :
        r \in rows, k \in DOMAIN CrSampleNames}

\* the expression data of a study: none; three genes that give three pairs;
\* a constant gene, which leaves no qualifying pair; two genes that give one pair
CrMatrixes ==
    {{},
     CrMatrixOf({<<1, <<10, 25, 10>>>>, <<2, <<25, 10, 25>>>>, <<3, <<10, 10, 25>>>>}),
     CrMatrixOf({<<1, <<10, 10, 10>>>>, <<2, <<10, 10, 10>>>>}),
     CrMatrixOf({<<1, <<10, 25, 25>>>>, <<2, <<10, 10, 25>>>>})}

\* the illness of the samples: one cohort of three, or no sample with an illness
CrIllnessMaps ==
    {{[nk |-> CrSampleNames[k], key |-> 1] : k \in DOMAIN CrSampleNames},
     {[nk |-> CrSampleNames[k], key |-> NoKey] : k \in DOMAIN CrSampleNames}}

CrIdle == [entry |-> "none"]

CrInit ==
    /\ crDb = {}
    /\ crSess = {}
    /\ crPc = "idle"
    /\ crRun = CrIdle
    /\ crLast = [op |-> "none"]
    /\ RdOff
    /\ SmOff
    /\ StOff
    /\ DmOff
    /\ RnOff
    /\ RbOff
    /\ LdOff
    /\ ClOff
    /\ CpOff
    /\ MdOff
    /\ CkOff
    /\ WkOff

CrFrame == UNCHANGED <<rdVars, smVars, stVars, dmVars, rnVars, rbVars, ldVars, clVars, cpVars, mdVars, ckVars, wkVars>>

CrRowsOf(rows, study_key) == {r \in rows : r.study_key = study_key}

\* _load_expression_matrix (correlation_etl.py:69-101): the facts joined with
\* their samples; a fact of a sample without illness is left out
LoadExpressionMatrix(matrix, sample_illness_map) ==
    LET with_illness == {e.nk : e \in {x \in sample_illness_map : x.key # NoKey}}
        gene_expression == {e \in matrix : e.sample \in with_illness}
    IN [gene_expression |-> gene_expression,
        sample_illness |-> {e \in sample_illness_map :
                               e.key # NoKey /\ \E x \in gene_expression : x.sample = e.nk}]

\* delete_gene_pair_correlations_for_study (repositories.py:273-278)
DeleteGenePairCorrelationsForStudy(rows, study_key) ==
    {r \in rows : r.study_key # study_key}

\* bulk_insert_gene_pair_correlations (repositories.py:267-270)
BulkInsertGenePairCorrelations(rows, records) == rows \cup records

\* what the running recomputation computes from its data: the pipeline from the
\* matrix and the illness map it has built (pipeline.py:286-290), the ETL from
\* what _load_expression_matrix returned (correlation_etl.py:121-126)
CrComputed ==
    IF crRun.entry = "etl"
    THEN LET l == LoadExpressionMatrix(crRun.matrix, crRun.illness)
         IN ComputeGenePairCorrelations(l.gene_expression, l.sample_illness, crRun.study,
                                        MIN_SAMPLES_FOR_CORRELATION)
    ELSE ComputeGenePairCorrelations(crRun.matrix, crRun.illness, crRun.study,
                                     MIN_SAMPLES_FOR_CORRELATION)

CrEnd(op, at, result) ==
    /\ crLast' = [op |-> op, at |-> at, entry |-> crRun.entry, study |-> crRun.study,
                  result |-> result, before |-> crDb]
    /\ crRun' = CrIdle
    /\ crPc' = "idle"

\* a recomputation begins: a session, and the data of the study are read
\* (pipeline.py:211-230; correlation_etl.py:111-114; correlation_job.py:56)
CrBegin(entry, study, matrix, illness) ==
    /\ crPc = "idle"
    /\ crRun' = [entry |-> entry, study |-> study, matrix |-> matrix, illness |-> illness]
    /\ crSess' = crDb
    /\ crPc' = "loaded"
    /\ UNCHANGED <<crDb, crLast>>
    /\ CrFrame

\* the DELETE of the pipeline, with a commit of its own after it
CrPipelineDeleteCommits ==
    /\ crPc = "loaded"
    /\ crRun.entry = "pipeline"
    /\ crSess' = DeleteGenePairCorrelationsForStudy(crSess, crRun.study)
    /\ crDb' = crSess'
    /\ crPc' = "deleted"
    /\ UNCHANGED <<crRun, crLast>>
    /\ CrFrame

\* the pipeline deletes the study's rows before it computes (pipeline.py:285)
CrPipelineDelete ==
    /\ crPc = "loaded"
    /\ crRun.entry = "pipeline"
    /\ crSess' = DeleteGenePairCorrelationsForStudy(crSess, crRun.study)
    /\ crPc' = "deleted"
    /\ UNCHANGED <<crDb, crRun, crLast>>
    /\ CrFrame

\* the ETL returns early when no fact has an illness (correlation_etl.py:116-118)
\* or when no pair qualifies (correlation_etl.py:129-144), and deletes otherwise
\* (correlation_etl.py:146)
CrEtlCompute ==
    /\ crPc = "loaded"
    /\ crRun.entry = "etl"
    /\ IF \/ LoadExpressionMatrix(crRun.matrix, crRun.illness).gene_expression = {}
          \/ CrComputed = {}
       THEN crPc' = "skipped" /\ UNCHANGED crSess
       ELSE /\ crSess' = DeleteGenePairCorrelationsForStudy(crSess, crRun.study)
            /\ crPc' = "deleted"
    /\ UNCHANGED <<crDb, crRun, crLast>>
    /\ CrFrame

\* the job deletes and commits when the study has no expression data
\* (correlation_job.py:62-64); otherwise it calls compute_gene_pair_correlations
\* without the required sample_illness_map (correlation_job.py:85-88;
\* correlation.py:91-97), which raises TypeError, and run_correlation_job rolls
\* back (correlation_job.py:205-210)
CrJobProcess ==
    /\ crPc = "loaded"
    /\ crRun.entry = "job"
    /\ IF crRun.matrix = {}
       THEN /\ crSess' = DeleteGenePairCorrelationsForStudy(crSess, crRun.study)
            /\ crDb' = crSess'
            /\ CrEnd("commit", "deleted", {})
       ELSE /\ crSess' = crDb
            /\ CrEnd("failed", "loaded", {})
            /\ UNCHANGED crDb
    /\ CrFrame

\* the INSERT of the computed rows, if there are any (pipeline.py:291-292;
\* correlation_etl.py:149)
CrInsert ==
    /\ crPc = "deleted"
    /\ crSess' = IF CrComputed # {}
                 THEN BulkInsertGenePairCorrelations(crSess, CrComputed)
                 ELSE crSess
    /\ crPc' = "inserted"
    /\ UNCHANGED <<crDb, crRun, crLast>>
    /\ CrFrame

\* session.commit() (pipeline.py:293; database.py:76 at the end of session_scope)
CrCommit ==
    /\ crPc \in {"inserted", "skipped"}
    /\ crDb' = crSess
    /\ CrEnd("commit", crPc, CrComputed)
    /\ UNCHANGED crSess
    /\ CrFrame

\* an exception or the death of the process between two statements: the
\* transaction is rolled back (database.py:77-79; pipeline.py:316, 346-349)
CrFail ==
    /\ crPc \in {"loaded", "deleted", "inserted", "skipped"}
    /\ crSess' = crDb
    /\ CrEnd("failed", crPc, {})
    /\ UNCHANGED crDb
    /\ CrFrame

CrNext ==
    \/ \E entry \in CrEntries, study \in CrStudies,
          matrix \in CrMatrixes, illness \in CrIllnessMaps :
              CrBegin(entry, study, matrix, illness)
    \/ CrPipelineDelete
    \/ CrEtlCompute
    \/ CrJobProcess
    \/ CrInsert
    \/ CrCommit
    \/ CrFail

SpecCorr == CrInit /\ [][CrNext]_vars

(* SpecRollback: the rows that the run command of the CLI (cli/commands.py: *)
(* 53-116) writes for its run id, and RollbackManager.rollback_run          *)
(* (etl/rollback.py:18-25) of a run id, statement by statement. The engine  *)
(* database holds fact_expression, metrics, checkpoints, runs and dim_study *)
(* (db/models.py); the CheckpointStore of the run command keeps a           *)
(* checkpoints table in the SQLite file named by run.artifacts_db           *)
(* (etl/checkpoint.py:22-48), which is the engine's database only when the  *)
(* configuration names the same file twice. No code of the repository       *)
(* writes a runs or a metrics row, or an engine checkpoint on its own: the  *)
(* ones in the database at the start are the bookkeeping of other tools.    *)
(* The rows of one batch are followed as one row.                           *)

\* the most batches the run command writes for one study
MaxBatches == 2

\* str(uuid4()) of commands.py:58
RbRunIds == {"R1", "R2"}

\* study_dir.name of commands.py:86
RbStudy == "S1"

\* the tables whose rows carry a run_id (db/models.py:19-48, 57-65)
RbRunTables == {"fact_expression", "metrics", "checkpoints", "runs"}

RbTables == RbRunTables \cup {"dim_study"}

RbNoRun == [run_id |-> "none", pc |-> "none", batch_index |-> 0]

\* Checkpoint of etl/checkpoint.py:11-16
RbCheckpoint(run_id, batch_index) ==
    [run_id |-> run_id, study_id |-> RbStudy,
     table_name |-> "fact_expression", batch_index |-> batch_index]

\* the bookkeeping rows of the runs in seed
RbSeeded(seed) ==
    [t \in RbTables |->
        CASE t = "runs" -> {[run_id |-> r] : r \in seed}
          [] t = "metrics" -> {[run_id |-> r, study_id |-> RbStudy, metric_key |-> "rows"] : r \in seed}
          [] t = "checkpoints" -> {[run_id |-> r, study_id |-> RbStudy,
                                    table_name |-> "dim_study", batch_index |-> 0] : r \in seed}
          [] OTHER -> {}]

RbInit ==
    /\ rbShared \in BOOLEAN
    /\ \E seed \in SUBSET RbRunIds : rbDb = RbSeeded(seed)
    /\ rbArtifacts = {}
    /\ rbConn = rbDb
    /\ rbPc = "idle"
    /\ rbArg = "none"
    /\ rbRun = RbNoRun
    /\ rbStarted = {}
    /\ rbLast = [op |-> "none", at |-> "none", run_id |-> "none"]
    /\ RdOff
    /\ SmOff
    /\ StOff
    /\ DmOff
    /\ RnOff
    /\ CrOff
    /\ LdOff
    /\ ClOff
    /\ CpOff
    /\ MdOff
    /\ CkOff
    /\ WkOff

RbFrame == UNCHANGED <<rdVars, smVars, stVars, dmVars, rnVars, crVars, ldVars, clVars, cpVars, mdVars, ckVars, wkVars>>

\* the rows of table t tagged with run_id
RbTagged(db, t, run_id) == {row \in db[t] : row.run_id = run_id}

\* the checkpoints table that CheckpointStore reads and writes
RbCheckpointStoreRows == IF rbShared THEN rbDb.checkpoints ELSE rbArtifacts

\* commands.py:58, 85-96: a run takes a fresh run id and upserts the study's
\* metadata (loader.py:39-43, a transaction of its own)
RbRunStart(run_id) ==
    /\ rbPc = "idle"
    /\ rbRun.pc = "none"
    /\ run_id \notin rbStarted
    /\ rbStarted' = rbStarted \cup {run_id}
    /\ rbDb' = [rbDb EXCEPT !.dim_study = @ \cup {[study_id |-> RbStudy]}]
    /\ rbConn' = rbDb'
    /\ rbRun' = [run_id |-> run_id, pc |-> "batch", batch_index |-> 0]
    /\ UNCHANGED <<rbShared, rbArtifacts, rbPc, rbArg, rbLast>>
    /\ RbFrame

\* commands.py:103, 111 and loader.py:69-83: a batch of facts tagged with the
\* run id, in a transaction of its own
RbInsertExpressionBatch ==
    /\ rbPc = "idle"
    /\ rbRun.pc = "batch"
    /\ rbRun.batch_index < MaxBatches
    /\ rbDb' = [rbDb EXCEPT !.fact_expression = @ \cup
                   {[run_id |-> rbRun.run_id, study_id |-> RbStudy, batch_id |-> rbRun.batch_index]}]
    /\ rbConn' = rbDb'
    /\ rbRun' = [rbRun EXCEPT !.pc = "record"]
    /\ UNCHANGED <<rbShared, rbArtifacts, rbPc, rbArg, rbStarted, rbLast>>
    /\ RbFrame

\* commands.py:104-107, 112-114 and checkpoint.py:42-48: INSERT OR IGNORE into
\* the checkpoints table of the artifacts file
RbRecord ==
    /\ rbPc = "idle"
    /\ rbRun.pc = "record"
    /\ LET cp == RbCheckpoint(rbRun.run_id, rbRun.batch_index)
       IN  IF rbShared
           THEN /\ rbDb' = [rbDb EXCEPT !.checkpoints = @ \cup {cp}]
                /\ UNCHANGED rbArtifacts
           ELSE /\ rbArtifacts' = rbArtifacts \cup {cp}
                /\ UNCHANGED rbDb
    /\ rbConn' = rbDb'
    /\ rbRun' = [rbRun EXCEPT !.pc = "batch", !.batch_index = @ + 1]
    /\ UNCHANGED <<rbShared, rbPc, rbArg, rbStarted, rbLast>>
    /\ RbFrame

\* commands.py:116, or the death of the run's process
RbRunEnd ==
    /\ rbPc = "idle"
    /\ rbRun.pc \in {"batch", "record"}
    /\ rbRun' = RbNoRun
    /\ UNCHANGED <<rbShared, rbDb, rbArtifacts, rbConn, rbPc, rbArg, rbStarted, rbLast>>
    /\ RbFrame

\* one delete statement of rollback.py:21-24 in the open transaction
RbDelete(t, from, to) ==
    /\ rbPc = from
    /\ rbConn' = [rbConn EXCEPT ![t] = {row \in @ : row.run_id # rbArg}]
    /\ rbPc' = to
    /\ UNCHANGED <<rbShared, rbDb, rbArtifacts, rbArg, rbRun, rbStarted, rbLast>>
    /\ RbFrame

\* the first delete, writing through to the database as if each statement
\* were committed on its own
RbDeleteFactExpressionAutocommit(run_id) ==
    /\ rbPc = "idle"
    /\ rbArg' = run_id
    /\ rbConn' = [rbDb EXCEPT !.fact_expression = {row \in @ : row.run_id # run_id}]
    /\ rbDb' = rbConn'
    /\ rbPc' = "fact_expression"
    /\ UNCHANGED <<rbShared, rbArtifacts, rbRun, rbStarted, rbLast>>
    /\ RbFrame

\* rollback.py:20-21: engine.begin() and the delete of the run's facts
RbDeleteFactExpression(run_id) ==
    /\ rbPc = "idle"
    /\ rbArg' = run_id
    /\ rbConn' = [rbDb EXCEPT !.fact_expression = {row \in @ : row.run_id # run_id}]
    /\ rbPc' = "fact_expression"
    /\ UNCHANGED <<rbShared, rbDb, rbArtifacts, rbRun, rbStarted, rbLast>>
    /\ RbFrame

\* rollback.py:22
RbDeleteMetrics == RbDelete("metrics", "fact_expression", "metrics")

\* rollback.py:23
RbDeleteCheckpoints == RbDelete("checkpoints", "metrics", "checkpoints")

\* rollback.py:24
RbDeleteRuns == RbDelete("runs", "checkpoints", "runs")

\* rollback.py:20, 25: the block of engine.begin() ends and the transaction commits
RbCommit ==
    /\ rbPc = "runs"
    /\ rbDb' = rbConn
    /\ rbPc' = "idle"
    /\ rbLast' = [op |-> "commit", at |-> rbPc, run_id |-> rbArg]
    /\ rbArg' = "none"
    /\ UNCHANGED <<rbShared, rbArtifacts, rbConn, rbRun, rbStarted>>
    /\ RbFrame

\* a statement raises, or the process dies, with the transaction open:
\* engine.begin() rolls back (rollback.py:20)
RbFail ==
    /\ rbPc \in RbRunTables
    /\ rbConn' = rbDb
    /\ rbPc' = "idle"
    /\ rbLast' = [op |-> "failed", at |-> rbPc, run_id |-> rbArg]
    /\ rbArg' = "none"
    /\ UNCHANGED <<rbShared, rbDb, rbArtifacts, rbRun, rbStarted>>
    /\ RbFrame

RbNext ==
    \/ \E run_id \in RbRunIds : RbRunStart(run_id)
    \/ RbInsertExpressionBatch
    \/ RbRecord
    \/ RbRunEnd
    \/ \E run_id \in RbRunIds : RbDeleteFactExpression(run_id)
    \/ RbDeleteMetrics
    \/ RbDeleteCheckpoints
    \/ RbDeleteRuns
    \/ RbCommit
    \/ RbFail

SpecRollback == RbInit /\ [][RbNext]_vars

(* SpecLoader: calls of the BatchLoader writes, upsert_study_metadata and   *)
(* insert_expression_batch (etl/loader.py:31-88), one after another on one  *)
(* loader, with the attempts that tenacity's @retry makes of _execute. An   *)
(* attempt opens a transaction, executes its statements and commits. The    *)
(* configured retry_attempts is at least 1 (cli/validators.py:19). An       *)
(* attempt fails with OperationalError when the database is locked or       *)
(* unreachable, before its statements or at the commit, whatever the rows;  *)
(* with ValueError when float() rejects a value (loader.py:77); with        *)
(* IntegrityError when a value is stored as NULL in the NOT NULL column     *)
(* expression_value (db/models.py:63), as SQLite stores NaN; with           *)
(* StatementError when the payload cannot be serialised as JSON             *)
(* (db/models.py:54).                                                       *)

\* the largest configured retry_attempts
MaxAttempts == 3

\* the longest batch, in rows
MaxLoaderRows == 2

LdOperations == {"upsert_study_metadata", "insert_expression_batch"}

\* the calls made on one loader, numbered; the number is the batch_id of a batch
LdCallNumbers == {1, 2}

LdStudyIds == {"S1", "S2"}

\* expression_value of a row: a number, text that float() rejects, and NaN
LdValues == {"1.0", "abc", "nan"}

LdPayloads == {"p1", "p2", "unserialisable"}

LdTransient == {"OperationalError"}

LdNonTransient == {"ValueError", "IntegrityError", "StatementError"}

\* the batches of insert_expression_batch, each row by its expression_value
LdBatches == UNION {[1..n -> LdValues] : n \in 0..MaxLoaderRows}

\* the arguments of a call
LdInputs ==
    [op : {"upsert_study_metadata"}, study_id : LdStudyIds, payload : LdPayloads, rows : {<<>>}]
        \cup [op : {"insert_expression_batch"}, study_id : {"S1"}, payload : {"p1"}, rows : LdBatches]

LdNoInput == [op |-> "none", study_id |-> "none", payload |-> "none", rows |-> <<>>]

LdInit ==
    /\ ldConfig \in [retry_attempts : 1..MaxAttempts]
    /\ ldIn = LdNoInput
    /\ \E old \in SUBSET LdStudyIds :
          /\ ldDb = [dim_study |-> {[study_id |-> s, payload |-> "p0"] : s \in old},
                     fact_expression |-> <<>>]
          /\ ldUpserted = [s \in LdStudyIds |-> IF s \in old THEN "p0" ELSE "none"]
    /\ ldConn = ldDb
    /\ ldBefore = ldDb
    /\ ldCalls = 0
    /\ ldPc = "idle"
    /\ ldAttempt = 0
    /\ ldErrs = <<>>
    /\ ldRet = [kind |-> "none"]
    /\ RdOff
    /\ SmOff
    /\ StOff
    /\ DmOff
    /\ RnOff
    /\ CrOff
    /\ RbOff
    /\ ClOff
    /\ CpOff
    /\ MdOff
    /\ CkOff
    /\ WkOff

LdFrame == UNCHANGED <<rdVars, smVars, stVars, dmVars, rnVars, crVars, rbVars, clVars, cpVars, mdVars, ckVars, wkVars>>

\* the exception that the rows or the payload make _execute raise, "none" when
\* the statement is accepted (loader.py:39-43, 69-83)
LdExecuteError(in) ==
    IF in.op = "upsert_study_metadata"
    THEN IF in.payload = "unserialisable" THEN "StatementError" ELSE "none"
    ELSE IF \E k \in DOMAIN in.rows : ~IsFloat(in.rows[k]) /\ in.rows[k] # "nan"
         THEN "ValueError"
         ELSE IF \E k \in DOMAIN in.rows : in.rows[k] = "nan"
              THEN "IntegrityError"
              ELSE "none"

\* the rows that insert_expression_batch builds (loader.py:72-81)
LdFactRows(in, batch_id) ==
    [k \in DOMAIN in.rows |->
        [study_id |-> in.study_id, batch_id |-> batch_id, expression_value |-> in.rows[k]]]

\* the upsert without its delete statement
LdExecuteInsertOnly(db, in, batch_id) ==
    IF in.op = "upsert_study_metadata"
    THEN [db EXCEPT !.dim_study = @ \cup {[study_id |-> in.study_id, payload |-> in.payload]}]
    ELSE [db EXCEPT !.fact_expression = @ \o LdFactRows(in, batch_id)]

\* the tables after the statements of _execute (loader.py:39-43, 69-83)
LdExecute(db, in, batch_id) ==
    IF in.op = "upsert_study_metadata"
    THEN [db EXCEPT !.dim_study = {row \in @ : row.study_id # in.study_id}
                                      \cup {[study_id |-> in.study_id, payload |-> in.payload]}]
    ELSE [db EXCEPT !.fact_expression = @ \o LdFactRows(in, batch_id)]

\* stop_after_attempt, with the bound taken as exclusive
StopAfterAttemptExceeded(attempt_number, max_attempt_number) ==
    attempt_number > max_attempt_number

\* tenacity's stop_after_attempt(max_attempt_number) (loader.py:35, 65)
StopAfterAttempt(attempt_number, max_attempt_number) ==
    attempt_number >= max_attempt_number

\* loader.py:31, 50-58, 45-46, 85-86: a call; an empty batch returns 0 at once
LdCall(in) ==
    /\ ldPc \in {"idle", "returned", "raised"}
    /\ ldCalls + 1 \in LdCallNumbers
    /\ ldCalls' = ldCalls + 1
    /\ ldIn' = in
    /\ ldBefore' = ldDb
    /\ ldErrs' = <<>>
    /\ IF in.op = "insert_expression_batch" /\ in.rows = <<>>
       THEN /\ ldPc' = "returned"
            /\ ldRet' = [kind |-> "return", value |-> 0]
            /\ ldAttempt' = 0
       ELSE /\ ldPc' = "attempt"
            /\ ldAttempt' = 1
            /\ ldRet' = [kind |-> "none"]
    /\ UNCHANGED <<ldConfig, ldDb, ldConn, ldUpserted>>
    /\ LdFrame

\* the statements of _execute in the transaction of engine.begin()
\* (loader.py:39-43, 69-82)
LdExecuteStatements ==
    /\ ldPc = "attempt"
    /\ LdExecuteError(ldIn) = "none"
    /\ ldConn' = LdExecute(ldDb, ldIn, ldCalls)
    /\ ldPc' = "executed"
    /\ UNCHANGED <<ldConfig, ldIn, ldDb, ldBefore, ldCalls, ldAttempt, ldErrs, ldRet, ldUpserted>>
    /\ LdFrame

\* the block of engine.begin() ends: the commit, and _execute returns
\* (loader.py:39, 69, 83, 86)
LdExecuteOk ==
    /\ ldPc = "executed"
    /\ ldDb' = ldConn
    /\ ldPc' = "returned"
    /\ ldRet' = [kind |-> "return",
                 value |-> IF ldIn.op = "insert_expression_batch" THEN Len(ldIn.rows) ELSE 0]
    /\ ldUpserted' = IF ldIn.op = "upsert_study_metadata"
                     THEN [ldUpserted EXCEPT ![ldIn.study_id] = ldIn.payload]
                     ELSE ldUpserted
    /\ UNCHANGED <<ldConfig, ldIn, ldConn, ldBefore, ldCalls, ldAttempt, ldErrs>>
    /\ LdFrame

\* a failed attempt whose statements reach storage all the same
LdExecuteRaisesKeepsRows(exc) ==
    /\ ldPc \in {"attempt", "executed"}
    /\ exc \in LdTransient \/ (ldPc = "attempt" /\ exc = LdExecuteError(ldIn))
    /\ ldErrs' = Append(ldErrs, [exc |-> exc, at |-> ldPc])
    /\ ldDb' = ldConn
    /\ UNCHANGED ldConn
    /\ IF StopAfterAttempt(ldAttempt, ldConfig.retry_attempts)
       THEN /\ ldPc' = "raised"
            /\ ldRet' = [kind |-> "raise", exc |-> "RuntimeError"]
       ELSE /\ ldPc' = "wait"
            /\ UNCHANGED ldRet
    /\ UNCHANGED <<ldConfig, ldIn, ldBefore, ldCalls, ldAttempt, ldUpserted>>
    /\ LdFrame

\* an attempt of _execute that raises exc, before its statements or at the
\* commit: engine.begin() rolls back; @retry, which has no retry= predicate
\* and no reraise, stops with RetryError once stop_after_attempt holds, and
\* the caller's except turns that into RuntimeError (loader.py:34-37, 45-48,
\* 64-67, 85-88)
LdExecuteRaises(exc) ==
    /\ ldPc \in {"attempt", "executed"}
    /\ exc \in LdTransient \/ (ldPc = "attempt" /\ exc = LdExecuteError(ldIn))
    /\ ldErrs' = Append(ldErrs, [exc |-> exc, at |-> ldPc])
    /\ ldConn' = ldDb
    /\ UNCHANGED ldDb
    /\ IF StopAfterAttempt(ldAttempt, ldConfig.retry_attempts)
       THEN /\ ldPc' = "raised"
            /\ ldRet' = [kind |-> "raise", exc |-> "RuntimeError"]
       ELSE /\ ldPc' = "wait"
            /\ UNCHANGED ldRet
    /\ UNCHANGED <<ldConfig, ldIn, ldBefore, ldCalls, ldAttempt, ldUpserted>>
    /\ LdFrame

\* the wait of wait_exponential is over: the next attempt (loader.py:36, 66)
LdRetry ==
    /\ ldPc = "wait"
    /\ ldAttempt' = ldAttempt + 1
    /\ ldPc' = "attempt"
    /\ UNCHANGED <<ldConfig, ldIn, ldDb, ldConn, ldBefore, ldCalls, ldErrs, ldRet, ldUpserted>>
    /\ LdFrame

LdNext ==
    \/ \E in \in LdInputs : LdCall(in)
    \/ LdExecuteStatements
    \/ LdExecuteOk
    \/ \E exc \in LdTransient \cup LdNonTransient : LdExecuteRaises(exc)
    \/ LdRetry

SpecLoader == LdInit /\ [][LdNext]_vars

(* SpecCli: the loop of the run command over the discovered studies         *)
(* (cli/commands.py:85-116). A study of the plan is given by whether          *)
(* metadata_transformer.transform raises on its metadata file and by the     *)
(* number of batches its expression file makes, the last short one          *)
(* included. A BatchLoader write returns, or raises RuntimeError when its    *)
(* retries are exhausted (SpecLoader).                                       *)

\* the most study directories of a plan
MaxStudies == 3

\* the outcomes of a BatchLoader write (loader.py:45-48, 85-88)
ClWriteOutcomes == {"return", "RuntimeError"}

\* discovery.build_plan() of commands.py:67-68
ClPlans ==
    UNION {[1..n -> [transform : {"return", "raises"}, batches : 0..MaxBatches]] :
               n \in 1..MaxStudies}

ClInit ==
    /\ clPlan \in ClPlans
    /\ clPc = "transform"
    /\ clIdx = 1
    /\ clBatchIndex = 0
    /\ clStatus = [k \in DOMAIN clPlan |-> "pending"]
    /\ clCheckpoints = {}
    /\ clLog = <<>>
    /\ RdOff
    /\ SmOff
    /\ StOff
    /\ DmOff
    /\ RnOff
    /\ CrOff
    /\ RbOff
    /\ LdOff
    /\ CpOff
    /\ MdOff
    /\ CkOff
    /\ WkOff

ClFrame == UNCHANGED <<rdVars, smVars, stVars, dmVars, rnVars, crVars, rbVars, ldVars, cpVars, mdVars, ckVars, wkVars>>

\* the for statement takes the next study directory, or the loop is over and
\* the command logs cli.run.complete (commands.py:85, 116)
ClNextStudy(status) ==
    /\ clStatus' = [clStatus EXCEPT ![clIdx] = status]
    /\ clIdx' = clIdx + 1
    /\ clBatchIndex' = 0
    /\ clPc' = IF clIdx < Len(clPlan) THEN "transform" ELSE "complete"

\* an exception that no except clause of run catches ends the command
ClPropagate ==
    /\ clStatus' = [clStatus EXCEPT ![clIdx] = "failed"]
    /\ clPc' = "raised"
    /\ UNCHANGED <<clIdx, clBatchIndex>>

\* commands.py:90-94: a transform that raises is logged and the loop continues
ClTransform ==
    /\ clPc = "transform"
    /\ IF clPlan[clIdx].transform = "raises"
       THEN ClNextStudy("skipped")
       ELSE /\ clPc' = "upsert"
            /\ UNCHANGED <<clStatus, clIdx, clBatchIndex>>
    /\ UNCHANGED <<clPlan, clCheckpoints, clLog>>
    /\ ClFrame

\* commands.py:96: upsert_study_metadata, outside every try statement
ClUpsert(outcome) ==
    /\ clPc = "upsert"
    /\ IF outcome = "RuntimeError"
       THEN ClPropagate
       ELSE /\ clPc' = "batch"
            /\ UNCHANGED <<clStatus, clIdx, clBatchIndex>>
    /\ UNCHANGED <<clPlan, clCheckpoints, clLog>>
    /\ ClFrame

\* a batch whose insert returns is committed (loader.py:72-84) before the run
\* command goes on
ClCommitted(log) ==
    {<<log[p][2], log[p][3]>> : p \in {q \in DOMAIN log : log[q][1] = "rows"}}

\* commands.py:100-103, 110-111 with a record that follows a failed write
ClInsertExpressionBatchThenRecord(outcome) ==
    /\ clPc = "batch"
    /\ IF clBatchIndex >= clPlan[clIdx].batches
       THEN outcome = "return" /\ ClNextStudy("loaded") /\ UNCHANGED clLog
       ELSE /\ clPc' = "record"
            /\ clLog' = IF outcome = "RuntimeError" THEN clLog
                        ELSE Append(clLog, <<"rows", clIdx, clBatchIndex>>)
            /\ UNCHANGED <<clStatus, clIdx, clBatchIndex>>
    /\ UNCHANGED <<clPlan, clCheckpoints>>
    /\ ClFrame

\* commands.py:100-103, 110-111: the next batch is written, outside every try
\* statement; after the last one the study is done
ClInsertExpressionBatch(outcome) ==
    /\ clPc = "batch"
    /\ IF clBatchIndex >= clPlan[clIdx].batches
       THEN outcome = "return" /\ ClNextStudy("loaded") /\ UNCHANGED clLog
       ELSE IF outcome = "RuntimeError"
            THEN ClPropagate /\ UNCHANGED clLog
            ELSE /\ clPc' = "record"
                 /\ clLog' = Append(clLog, <<"rows", clIdx, clBatchIndex>>)
                 /\ UNCHANGED <<clStatus, clIdx, clBatchIndex>>
    /\ UNCHANGED <<clPlan, clCheckpoints>>
    /\ ClFrame

\* commands.py:104-108, 112-114: the checkpoint of the batch
ClRecord ==
    /\ clPc = "record"
    /\ clCheckpoints' = clCheckpoints \cup {<<clIdx, clBatchIndex>>}
    /\ clLog' = Append(clLog, <<"checkpoint", clIdx, clBatchIndex>>)
    /\ clBatchIndex' = clBatchIndex + 1
    /\ clPc' = "batch"
    /\ UNCHANGED <<clPlan, clStatus, clIdx>>
    /\ ClFrame

ClNext ==
    \/ ClTransform
    \/ \E outcome \in ClWriteOutcomes : ClUpsert(outcome)
    \/ \E outcome \in ClWriteOutcomes : ClInsertExpressionBatch(outcome)
    \/ ClRecord

SpecCli == ClInit /\ [][ClNext]_vars

(* SpecCompute: one call of compute_gene_pair_correlations                  *)
(* (correlation.py:91-160) or of _benjamini_hochberg (correlation.py:68-88) *)
(* on arguments drawn from small sets. The expression matrix has up to      *)
(* three genes over the samples S1, S2, S3; a gene has no value at all, or  *)
(* values for S1 and S2 and perhaps S3. min_samples is the default or the   *)
(* --min-samples of the correlation ETL (scripts/run_gene_corr_etl.py:      *)
(* 28-34). A p-value is a number of sixtieths, so that the products and     *)
(* quotients of _benjamini_hochberg are whole numbers for up to four        *)
(* p-values.                                                                *)

\* the most p-values of a call of _benjamini_hochberg
MaxPairs == 3

\* 1.0, in sixtieths
ONE == 60

CpGeneKeys == {1, 2, 3}

CpMinSamples == {2, MIN_SAMPLES_FOR_CORRELATION}

CpAbsent == 0

\* the values of one gene for S1, S2, S3
CpSeries ==
    {f \in [DOMAIN CrSampleNames -> {CpAbsent, 10, 25}] :
        \/ \A k \in DOMAIN f : f[k] = CpAbsent
        \/ f[1] # CpAbsent /\ f[2] # CpAbsent}

\* gene_expression_by_sample as the set of its cells
CpMatrixOf(genes) ==
    {c \in {[gene_key |-> g, sample |-> CrSampleNames[k], value |-> genes[g][k]] :
                g \in DOMAIN genes, k \in DOMAIN CrSampleNames} : c.value # CpAbsent}

\* sample_illness_map as the set of its items: no item; every sample None; one
\* cohort of three; a cohort of two and a cohort of one; a cohort of two and a
\* sample of None
CpIllnessMaps ==
    {{}} \cup
    {{[nk |-> CrSampleNames[k], key |-> keys[k]] : k \in DOMAIN CrSampleNames} :
        keys \in {<<NoKey, NoKey, NoKey>>, <<1, 1, 1>>, <<1, 1, 2>>, <<1, 1, NoKey>>}}

\* the p-values of the pairs of one cohort (correlation.py:140), none of them NaN
\* (correlation.py:132-133)
CpPValues == UNION {[1..n -> {0, 12, 24, 48, ONE}] : n \in 0..MaxPairs}

CpInit ==
    /\ \/ \E genes \in [CpGeneKeys -> CpSeries], illness \in CpIllnessMaps, min \in CpMinSamples :
             cpIn = [fn |-> "compute_gene_pair_correlations", matrix |-> CpMatrixOf(genes),
                     sample_illness_map |-> illness, study_key |-> 5, min_samples |-> min]
       \/ \E p \in CpPValues : cpIn = [fn |-> "_benjamini_hochberg", p_values |-> p]
    /\ cpPc = "new"
    /\ cpOut = <<>>
    /\ RdOff
    /\ SmOff
    /\ StOff
    /\ DmOff
    /\ RnOff
    /\ CrOff
    /\ RbOff
    /\ LdOff
    /\ ClOff
    /\ MdOff
    /\ CkOff
    /\ WkOff

CpFrame == UNCHANGED <<rdVars, smVars, stVars, dmVars, rnVars, crVars, rbVars, ldVars, clVars, mdVars, ckVars, wkVars>>

\* the place of p_values[i] in sorted(range(m), key=...) (correlation.py:73),
\* a stable sort
BhRank(p_values, i) ==
    1 + Cardinality({j \in DOMAIN p_values :
                        p_values[j] < p_values[i] \/ (p_values[j] = p_values[i] /\ j < i)})

\* (p_val * m) / (m - rank + 1) of the p-value at place k (correlation.py:82)
BhRaw(p_values, k) ==
    LET index == CHOOSE i \in DOMAIN p_values : BhRank(p_values, i) = k
    IN (p_values[index] * Len(p_values)) \div k

\* _benjamini_hochberg without the running minimum
BenjaminiHochbergRaw(p_values) ==
    [i \in DOMAIN p_values |-> Min(BhRaw(p_values, BhRank(p_values, i)), ONE)]

\* _benjamini_hochberg (correlation.py:68-88) on p-values that are not NaN:
\* from the largest p-value down, value = min(prev, raw)
BenjaminiHochberg(p_values) ==
    LET m == Len(p_values)
        RECURSIVE value(_)
        value(k) == Min(IF k = m THEN ONE ELSE value(k + 1), BhRaw(p_values, k))
    IN [i \in DOMAIN p_values |-> Min(value(BhRank(p_values, i)), ONE)]

CpCompute ==
    /\ cpPc = "new"
    /\ cpIn.fn = "compute_gene_pair_correlations"
    /\ cpOut' = ComputeGenePairCorrelations(cpIn.matrix, cpIn.sample_illness_map,
                                            cpIn.study_key, cpIn.min_samples)
    /\ cpPc' = "done"
    /\ UNCHANGED cpIn
    /\ CpFrame

CpBenjaminiHochberg ==
    /\ cpPc = "new"
    /\ cpIn.fn = "_benjamini_hochberg"
    /\ cpOut' = BenjaminiHochberg(cpIn.p_values)
    /\ cpPc' = "done"
    /\ UNCHANGED cpIn
    /\ CpFrame

CpNext == CpCompute \/ CpBenjaminiHochberg

SpecCompute == CpInit /\ [][CpNext]_vars

----------------------------------------------------------------------------
(* metadata_processing.py and pipeline.py: _first_non_empty over one row   *)
(* of a metadata file, and _process_metadata over the samples of one file. *)

MaxHeaders == 3

MaxSamples == 2

\* row.get() and dict.get() found nothing
MdNone == "None"

\* the headers of the metadata files of the model
MdHeaders ==
    {"characteristics_ch1_Illness", "characteristics_ch1_illness",
     "characteristics_ch2_illness", "illness"}

\* the cells of the metadata files of the model
MdCells == {"", " ", "Flu", " Cold "}

\* illness_fields of the configuration (config.py:59-63), without refinebio_disease
MdCandidates == {"characteristics_ch1_Illness", "illness"}

\* str.casefold() on the names of the model
Casefold(name) ==
    CASE name = "characteristics_ch1_Illness" -> "characteristics_ch1_illness"
      [] name = "characteristics_ch_Illness" -> "characteristics_ch_illness"
      [] OTHER -> name

\* re.sub(r"\d+", "", name) on the names of the model (metadata_processing.py:58)
SubDigits(name) ==
    CASE name = "characteristics_ch1_Illness" -> "characteristics_ch_Illness"
      [] name \in {"characteristics_ch1_illness", "characteristics_ch2_illness"}
            -> "characteristics_ch_illness"
      [] OTHER -> name

\* str.strip() on the cells of the model
Strip(value) ==
    CASE value = " " -> ""
      [] value = " Cold " -> "Cold"
      [] OTHER -> value

\* _normalize_header (metadata_processing.py:45-58); no name of the model has
\* blanks around it
NormalizeHeader(name) == IF name = "" THEN "" ELSE Casefold(SubDigits(name))

\* row.get(header) (metadata_processing.py:81); the row is the list of the
\* (header, cell) items of the dict, in the order of the file
RowGet(row, header) ==
    IF \E k \in DOMAIN row : row[k].header = header
    THEN row[CHOOSE k \in DOMAIN row : row[k].header = header].value
    ELSE MdNone

\* the positions of the items that enter the two lookups (metadata_processing.py:68-71)
MdFilled(row) == {k \in DOMAIN row : Strip(row[k].value) # ""}

\* casefold_lookup.get(key) (metadata_processing.py:66, 72, 87): setdefault keeps
\* the first item of a key
CasefoldLookup(row, key) ==
    LET hits == {k \in MdFilled(row) : Casefold(row[k].header) = key}
    IN IF hits = {} THEN MdNone
       ELSE row[CHOOSE k \in hits : \A j \in hits : k <= j].value

\* matches[0] of normalized_lookup.get(key, []) (metadata_processing.py:67, 73-74, 91-93)
NormalizedLookup(row, key) ==
    LET hits == {k \in MdFilled(row) : NormalizeHeader(row[k].header) = key}
    IN IF hits = {} THEN MdNone
       ELSE row[CHOOSE k \in hits : \A j \in hits : k <= j].value

\* the value of one candidate before its strip (metadata_processing.py:80-93)
CandidateValue(row, candidate) ==
    LET exact == RowGet(row, candidate)
        folded == IF exact = MdNone THEN CasefoldLookup(row, Casefold(candidate)) ELSE exact
    IN IF folded = MdNone THEN NormalizedLookup(row, NormalizeHeader(candidate)) ELSE folded

\* _first_non_empty (metadata_processing.py:61-102)
FirstNonEmpty(row, candidates) ==
    LET hits == {k \in DOMAIN candidates :
                    /\ candidates[k] # ""
                    /\ CandidateValue(row, candidates[k]) # MdNone
                    /\ Strip(CandidateValue(row, candidates[k])) # ""}
    IN IF row = <<>> \/ hits = {} THEN UNKNOWN_VALUE
       ELSE Strip(CandidateValue(row, candidates[CHOOSE k \in hits : \A j \in hits : k <= j]))

\* the rows: up to MaxHeaders items with distinct headers
MdRows ==
    {row \in UNION {[1..n -> [header : MdHeaders, value : MdCells]] : n \in 0..MaxHeaders} :
        \A j, k \in DOMAIN row : row[j].header = row[k].header => j = k}

\* the candidate lists: distinct candidates in any order
MdCandidateLists ==
    {cs \in UNION {[1..n -> MdCandidates] : n \in 0..Cardinality(MdCandidates)} :
        \A j, k \in DOMAIN cs : cs[j] = cs[k] => j = k}

\* the SampleMetadata of load_metadata (metadata_processing.py:131-150): the
\* accession of the sample and the experiment_accession of its row
MdSamples ==
    [gsm_accession : {"GSM_A", "GSM_B"}, study_accession : {"GSE123", "GSE999"},
     platform_accession : {"GPL1"}, illness_label : {"flu"}, age : {"30"}, sex : {"F"}]

MdInit ==
    /\ \/ \E row \in MdRows, candidates \in MdCandidateLists :
             mdIn = [fn |-> "_first_non_empty", row |-> row, candidates |-> candidates]
       \/ \E accession \in {"GSE123", "GSE999"},
             samples \in UNION {[1..n -> MdSamples] : n \in 0..MaxSamples} :
             mdIn = [fn |-> "_process_metadata", study_accession |-> accession,
                     samples |-> samples]
    /\ mdPc = "new"
    /\ mdOut = <<>>
    /\ RdOff
    /\ SmOff
    /\ StOff
    /\ DmOff
    /\ RnOff
    /\ CrOff
    /\ RbOff
    /\ LdOff
    /\ ClOff
    /\ CpOff
    /\ CkOff
    /\ WkOff

MdFrame == UNCHANGED <<rdVars, smVars, stVars, dmVars, rnVars, crVars, rbVars, ldVars, clVars, cpVars, ckVars, wkVars>>

MdFirstNonEmpty ==
    /\ mdPc = "new"
    /\ mdIn.fn = "_first_non_empty"
    /\ mdOut' = [value |-> FirstNonEmpty(mdIn.row, mdIn.candidates)]
    /\ mdPc' = "done"
    /\ UNCHANGED mdIn
    /\ MdFrame

\* _process_metadata (pipeline.py:143-182) on an empty database: the return value
\* and the committed tables, or StudyProcessingError for a file without samples
MdProcessMetadata ==
    /\ mdPc = "new"
    /\ mdIn.fn = "_process_metadata"
    /\ IF mdIn.samples = <<>>
       THEN mdOut' = [raised |-> TRUE, study_key |-> NoKey, samples |-> <<>>, t |-> EmptyTables]
       ELSE LET r == ProcessMetadata(EmptyTables, EmptyCache, mdIn.samples)
            IN mdOut' = [raised |-> r.raised, study_key |-> r.key, samples |-> mdIn.samples,
                         t |-> IF r.raised THEN EmptyTables ELSE r.t]
    /\ mdPc' = "done"
    /\ UNCHANGED mdIn
    /\ MdFrame

MdNext == MdFirstNonEmpty \/ MdProcessMetadata

SpecMetadata == MdInit /\ [][MdNext]_vars

----------------------------------------------------------------------------
(* src/etl/checkpoint.py: the CheckpointStore over its table checkpoints.  *)

MaxRecords == 3

\* row[0] is None (checkpoint.py:62): MAX() over no row
CkNone == -1

CkRunIds == {"run", "other"}

CkStudyIds == {"s1", "s2"}

CkTableNames == {"fact_expression", "dim_study"}

\* Checkpoint (checkpoint.py:11-16)
Checkpoint == [run_id : CkRunIds, study_id : CkStudyIds,
               table_name : CkTableNames, batch_index : 0..2]

\* _ensure_schema (checkpoint.py:27-40) on a new artifacts file
CkInit ==
    /\ ckRows = {}
    /\ ckRet = <<>>
    /\ RdOff
    /\ SmOff
    /\ StOff
    /\ DmOff
    /\ RnOff
    /\ CrOff
    /\ RbOff
    /\ LdOff
    /\ ClOff
    /\ CpOff
    /\ MdOff
    /\ WkOff

CkFrame == UNCHANGED <<rdVars, smVars, stVars, dmVars, rnVars, crVars, rbVars, ldVars, clVars, cpVars, mdVars, wkVars>>

\* a query that leaves the study out of its WHERE clause
LatestBatchOfAnyStudy(rows, run_id, study_id, table_name) ==
    LET found == {r \in rows : r.run_id = run_id /\ r.table_name = table_name}
    IN IF found = {} THEN CkNone ELSE MaxOf({r.batch_index : r \in found})

\* latest_batch (checkpoint.py:50-62): SELECT MAX(batch_index) with the study in
\* the WHERE clause unless it is "*"
LatestBatch(rows, run_id, study_id, table_name) ==
    LET base == {r \in rows : r.run_id = run_id /\ r.table_name = table_name}
        found == IF study_id = "*" THEN base ELSE {r \in base : r.study_id = study_id}
    IN IF found = {} THEN CkNone ELSE MaxOf({r.batch_index : r \in found})

\* record (checkpoint.py:42-48): INSERT OR IGNORE under the UNIQUE constraint of
\* all four columns, committed when the connection's block ends
CkRecord(checkpoint) ==
    /\ Cardinality(ckRows \cup {checkpoint}) <= MaxRecords
    /\ ckRows' = ckRows \cup {checkpoint}
    /\ ckRet' = <<>>
    /\ CkFrame

CkLatestBatch(run_id, study_id, table_name) ==
    /\ ckRet' = [run_id |-> run_id, study_id |-> study_id, table_name |-> table_name,
                 value |-> LatestBatch(ckRows, run_id, study_id, table_name)]
    /\ UNCHANGED ckRows
    /\ CkFrame

CkNext ==
    \/ \E checkpoint \in Checkpoint : CkRecord(checkpoint)
    \/ \E run_id \in CkRunIds, study_id \in CkStudyIds \cup {"*"}, table_name \in CkTableNames :
          CkLatestBatch(run_id, study_id, table_name)

SpecCheckpoint == CkInit /\ [][CkNext]_vars

----------------------------------------------------------------------------
(* pipeline.py: the sessions and the dimension caches of the study workers *)
(* of run_pipeline.                                                        *)

\* no Session or DimensionCache object is bound to the local
WkNoObject == 0

WkInit ==
    /\ wkMax \in 1..MaxWorkers
    /\ \E dirs \in SUBSET RnStudies : wkPc = [s \in dirs |-> "queued"]
    /\ wkSession = [s \in RnStudies |-> WkNoObject]
    /\ wkCache = [s \in RnStudies |-> [id |-> WkNoObject, session |-> WkNoObject]]
    /\ wkSessions = <<>>
    /\ wkUsed = {}
    /\ RdOff
    /\ SmOff
    /\ StOff
    /\ DmOff
    /\ RnOff
    /\ CrOff
    /\ RbOff
    /\ LdOff
    /\ ClOff
    /\ CpOff
    /\ MdOff
    /\ CkOff

WkFrame == UNCHANGED <<rdVars, smVars, stVars, dmVars, rnVars, crVars, rbVars, ldVars, clVars, cpVars, mdVars, ckVars>>

WkDirs == DOMAIN wkPc

WkRunning == {s \in WkDirs : wkPc[s] \in {"discover", "open", "ready"}}

\* a thread of the pool takes a submitted study (pipeline.py:383-393)
WkStartWorker(s) ==
    /\ s \in WkDirs
    /\ wkPc[s] = "queued"
    /\ Cardinality(WkRunning) < wkMax
    /\ wkPc' = [wkPc EXCEPT ![s] = "discover"]
    /\ UNCHANGED <<wkMax, wkSession, wkCache, wkSessions, wkUsed>>
    /\ WkFrame

\* a factory that hands every worker the first session it made
WkOpenSharedSession(s) ==
    /\ s \in WkDirs
    /\ wkPc[s] = "discover"
    /\ wkSessions' = IF wkSessions = <<>> THEN <<"open">> ELSE wkSessions
    /\ wkSession' = [wkSession EXCEPT ![s] = 1]
    /\ wkPc' = [wkPc EXCEPT ![s] = "open"]
    /\ UNCHANGED <<wkMax, wkCache, wkUsed>>
    /\ WkFrame

\* with session_factory() as session (pipeline.py:316): sessionmaker.__call__
\* makes a new Session (database.py:63-66), bound to a local of the call
WkOpenSession(s) ==
    /\ s \in WkDirs
    /\ wkPc[s] = "discover"
    /\ wkSessions' = Append(wkSessions, "open")
    /\ wkSession' = [wkSession EXCEPT ![s] = Len(wkSessions) + 1]
    /\ wkPc' = [wkPc EXCEPT ![s] = "open"]
    /\ UNCHANGED <<wkMax, wkCache, wkUsed>>
    /\ WkFrame

\* cache = bootstrap_cache(session) (pipeline.py:317, repositories.py:37-54): a
\* new DimensionCache read through the worker's session
WkBootstrapCache(s) ==
    /\ s \in WkDirs
    /\ wkPc[s] = "open"
    /\ wkCache' = [wkCache EXCEPT ![s] = [id |-> wkSession[s], session |-> wkSession[s]]]
    /\ wkUsed' = wkUsed \cup {[worker |-> s, session |-> wkSession[s], cache |-> WkNoObject]}
    /\ wkPc' = [wkPc EXCEPT ![s] = "ready"]
    /\ UNCHANGED <<wkMax, wkSession, wkSessions>>
    /\ WkFrame

\* a call that is handed session and cache: _process_metadata,
\* _process_expression and the repository calls below them (pipeline.py:323-345)
WkUse(s) ==
    /\ s \in WkDirs
    /\ wkPc[s] = "ready"
    /\ wkUsed' = wkUsed \cup {[worker |-> s, session |-> wkSession[s], cache |-> wkCache[s].id]}
    /\ UNCHANGED <<wkMax, wkPc, wkSession, wkCache, wkSessions>>
    /\ WkFrame

\* clear_state and its commit, then the end of the with block (pipeline.py:350-352)
WkComplete(s) ==
    /\ s \in WkDirs
    /\ wkPc[s] = "ready"
    /\ wkSessions' = [wkSessions EXCEPT ![wkSession[s]] = "closed"]
    /\ wkPc' = [wkPc EXCEPT ![s] = "completed"]
    /\ UNCHANGED <<wkMax, wkSession, wkCache, wkUsed>>
    /\ WkFrame

\* an exception leaves _process_single_study: from discover_study_files before a
\* session exists (pipeline.py:312), or through the with block, which closes the
\* session (pipeline.py:316, 346-349)
WkRaise(s) ==
    /\ s \in WkDirs
    /\ s \in WkRunning
    /\ wkSessions' = IF wkSession[s] = WkNoObject THEN wkSessions
                     ELSE [wkSessions EXCEPT ![wkSession[s]] = "closed"]
    /\ wkPc' = [wkPc EXCEPT ![s] = "failed"]
    /\ UNCHANGED <<wkMax, wkSession, wkCache, wkUsed>>
    /\ WkFrame

WkNext ==
    \E s \in RnStudies :
        \/ WkStartWorker(s)
        \/ WkOpenSession(s)
        \/ WkBootstrapCache(s)
        \/ WkUse(s)
        \/ WkComplete(s)
        \/ WkRaise(s)

SpecWorkers == WkInit /\ [][WkNext]_vars

----------------------------------------------------------------------------
(* Claims about the reader.                                                *)

\* the stream of a pass without resume position over the same file
RdFull == IterFilteredExpression(rdIn.file, RdAllowed, rdIn.sampleCols, NoGene, 0)

\* the places of the full pass at which the recorded position (g, i) was emitted
RdPositions ==
    {k \in 1..Len(RdFull) : /\ RdFull[k].gene_id = rdIn.resumeGene
                            /\ RdFull[k].sample_index = rdIn.resumeIdx}

RdFirstPosition == CHOOSE k \in RdPositions : \A j \in RdPositions : k <= j

\* C5: a resumed stream is exactly the part of the full pass that follows the
\* recorded position (g, i): the row at the position is not emitted again and no
\* later row is left out
C5_ResumeEmitsRowsAfterPosition ==
    (rdPc = "exhausted" /\ rdIn.resumeGene # NoGene /\ RdPositions # {})
        => rdOut = SubSeq(RdFull, RdFirstPosition + 1, Len(RdFull))

\* what the code does for C5, in a file that names each gene once: the stream
\* starts again AT the recorded position
C5_ResumeEmitsFromPosition ==
    (/\ rdPc = "exhausted" /\ rdIn.resumeGene # NoGene /\ RdPositions # {}
     /\ \A j, k \in DOMAIN rdIn.file.rows :
            rdIn.file.rows[j].gene = rdIn.file.rows[k].gene => j = k)
        => rdOut = SubSeq(RdFull, RdFirstPosition, Len(RdFull))

----------------------------------------------------------------------------
(* Claims about get_or_create_sample.                                      *)

Known(v) == v # "" /\ v # UNKNOWN_VALUE

\* the sample row of the last call, after the call
SmAfter == SmRowOf(smSess, smLast.sample.gsm_accession)

\* the last operation was a call that found the sample's row
SmMerged == smLast.op = "call" /\ smLast.before # NoRow

\* C7: a field of a sample row that holds a known value keeps it through every
\* later get_or_create_sample call for the sample, whatever the call carries
C7_KnownFieldsAreKept ==
    SmMerged =>
        /\ smLast.before.platform_key # NoKey => SmAfter.platform_key = smLast.before.platform_key
        /\ smLast.before.illness_key # NoKey => SmAfter.illness_key = smLast.before.illness_key
        /\ Known(smLast.before.age) => SmAfter.age = smLast.before.age
        /\ Known(smLast.before.sex) => SmAfter.sex = smLast.before.sex

\* the part of C7 the code keeps: a known age or sex is never replaced
C7_KnownAgeSexAreKept ==
    SmMerged =>
        /\ Known(smLast.before.age) => SmAfter.age = smLast.before.age
        /\ Known(smLast.before.sex) => SmAfter.sex = smLast.before.sex

\* the last call re-ingested a sample whose four fields were unknown with a
\* record that carries four known values
SmFillCase ==
    /\ SmMerged
    /\ smLast.before.platform_key = NoKey /\ smLast.before.illness_key = NoKey
    /\ ~Known(smLast.before.age) /\ ~Known(smLast.before.sex)
    /\ Known(smLast.sample.platform_accession) /\ Known(smLast.sample.illness_label)
    /\ Known(smLast.sample.age) /\ Known(smLast.sample.sex)

\* C8: re-ingesting a sample whose fields are all unknown with a record of known
\* values returns the key of the existing row, adds no sample row, and sets the
\* row's platform, illness, age and sex to those of the record
C8_ReingestFillsUnknownFields ==
    SmFillCase =>
        /\ smLast.key = smLast.before.key
        /\ Cardinality({r \in smSess.samples : r.nk[1] = smLast.sample.gsm_accession}) = 1
        /\ \E pr \in smSess.platforms :
              pr.nk = smLast.sample.platform_accession /\ SmAfter.platform_key = pr.key
        /\ \E ir \in smSess.illnesses :
              ir.nk = smLast.sample.illness_label /\ SmAfter.illness_key = ir.key
        /\ SmAfter.age = smLast.sample.age
        /\ SmAfter.sex = smLast.sample.sex

C8_Witness == SmFillCase /\ SmAfter.age = "30" /\ SmAfter.platform_key # NoKey

----------------------------------------------------------------------------
(* Claims about the pipeline of one study.                                 *)

\* the stream of a pass over the study's file without resume position
StFull == IterFilteredExpression(stIn.file, StGeneFilter, StExpected, NoGene, 0)

Triple(row) == <<row.sample_accession, row.gene_id, row.expression_value>>

\* the facts an uninterrupted pass persists, by natural keys
StFullFacts == {Triple(StFull[k]) : k \in DOMAIN StFull}

\* the facts of tables t, by natural keys: (sample accession, gene id, value)
StFacts(t) ==
    {<<w[2].nk[1], w[3].nk, w[1].expression_value>> :
        w \in {x \in t.facts \X t.samples \X t.genes :
                 x[1].sample_key = x[2].key /\ x[1].gene_key = x[3].key}}

\* the places of the full pass at which (gene, index) was emitted
StPositions(gene, index) ==
    {k \in DOMAIN StFull : StFull[k].gene_id = gene /\ StFull[k].sample_index = index}

\* C4: a pass that completes leaves exactly the facts of an uninterrupted pass,
\* each (sample, gene) once, however often earlier passes were interrupted; and a
\* pass that starts from a cursor reads the file from the cursor's row on, not
\* from the start
C4_RerunPersistsSameFacts ==
    /\ stPc = "done" =>
          /\ StFacts(stDb) = StFullFacts
          /\ Cardinality(stDb.facts) = Cardinality(StFullFacts)
    /\ (stPc \in {"rows", "correlation", "clear", "done"} /\ stL.resume_gene # NoGene) =>
          \E p \in StPositions(stL.resume_gene, stL.resume_index) :
              StStream = SubSeq(StFull, p, Len(StFull))

\* a pass that resumed in the middle of a gene's row, after an earlier gene, has
\* completed
C4_Witness ==
    /\ stPc = "done"
    /\ stL.resume_gene # NoGene
    /\ stL.resume_index = 0
    /\ Len(StStream) < Len(StFull)
    /\ Len(StStream) >= 2
    /\ Cardinality(stDb.facts) = Len(StFull)

StStateRows(t) == {r \in t.state : r.study_accession = StStudyAccession}

\* the cursor of state row r marks the last committed position of tables t: the
\* rows of the full pass up to it are the persisted facts, no more and no less
StCursorMarksCommitted(t, r) ==
    IF r.last_processed_gene = NoGene
    THEN t.facts = {}
    ELSE \E p \in StPositions(r.last_processed_gene, r.last_sample_index) :
            StFacts(t) = {Triple(StFull[k]) : k \in 1..p}

\* C6: in every committed state that holds a resume cursor, the facts persisted
\* are exactly the rows the reader emits up to the cursor
C6_CursorMarksLastCommitted ==
    \A r \in StStateRows(stDb) : StCursorMarksCommitted(stDb, r)

\* the same, for a study that no earlier pass has completed
C6_CursorMarksLastCommittedFirstIngestion ==
    ~stCompleted => \A r \in StStateRows(stDb) : StCursorMarksCommitted(stDb, r)

\* C10: when the pipeline of a study has finished without error, the committed
\* tables hold no resume-state row for the study
C10_CompletedStudyHasNoState ==
    stPc = "done" => StStateRows(stDb) = {} /\ StStateRows(stSess) = {}

C10_Witness == stPc = "done" /\ stDb.facts # {} /\ StStateRows(stDb) = {}

\* every fact of the file and the correlation replace that follows them are
\* committed: by the running pass, which has only clear_state left to do, or by
\* an earlier pass that ran to completion over the same files
StIngestionComplete ==
    /\ StFacts(stDb) = StFullFacts
    /\ stPc = "clear" \/ stCompleted

\* C11: in every committed state, a resume-state row for the study means that
\* its ingestion is incomplete: some fact or the correlation results are not
\* yet committed
C11_StateRowMeansIncomplete ==
    StStateRows(stDb) # {} => ~StIngestionComplete

\* the pass began with a state row whose metadata_loaded is set: the row is in
\* the committed tables from the start of the pass to its clear_state
StMetadataLoaded == LoadResumeState(stDb, StStudyAccession).metadata_loaded

\* C12: the pass that follows a failure after the metadata commit finds the
\* state row with metadata_loaded set and does not process the metadata again
C12_LoadedMetadataIsNotRedone ==
    StMetadataLoaded => stPc # "metadata"

\* what the code does for C12: the state row written after the metadata
\* outlives the failure and the crash of a pass
C12_StateRowSurvivesFailure ==
    [][stPc' \in {"failed", "crashed"} => StStateRows(stDb') = StStateRows(stDb)]_vars

----------------------------------------------------------------------------
(* Claims about the concurrent get-or-create calls.                        *)

\* the natural-key-to-surrogate-key pairs held anywhere: in the rows, and in the
\* cache of each worker
DmMappings ==
    {[kind |-> r.kind, nk |-> r.nk, key |-> r.key] : r \in dmRows}
        \cup UNION {dmCache[w] : w \in DmWorkers}

DmEnded(w) == dmRet[w] # DmNoCall

\* C1: whatever the interleaving of the workers' get-or-create calls, the
\* database never holds two rows of a table with the same natural key, and a
\* natural key is never mapped to two surrogate keys, in the rows or in the
\* caches of two workers.
C1_OneRowAndOneKeyPerNaturalKey ==
    /\ \A r1, r2 \in dmRows :
           (r1.kind = r2.kind /\ r1.nk = r2.nk) => r1 = r2
    /\ \A m1, m2 \in DmMappings :
           (m1.kind = m2.kind /\ m1.nk = m2.nk) => m1.key = m2.key

\* two workers hold the same natural key in their caches, one from the row it
\* inserted and the other from the query after its own INSERT was ignored
C1_Witness ==
    \E w1, w2 \in DmWorkers :
        /\ w1 # w2
        /\ DmEnded(w1) /\ dmRet[w1].how = "insert"
        /\ DmEnded(w2) /\ dmRet[w2].how = "requery"
        /\ dmRet[w1].nk = dmRet[w2].nk
        /\ \E e1 \in dmCache[w1], e2 \in dmCache[w2] :
               e1.nk = dmRet[w1].nk /\ e2.nk = e1.nk

\* C2: a call that misses the cache and whose INSERT conflicts with the row of
\* another worker does not fail; it returns the key of that row and caches it.
\* This is for every table.
C2_ConflictingInsertReturnsWinningKey ==
    \A w \in DmWorkers :
        DmEnded(w) =>
            /\ dmRet[w].how # "raised"
            /\ dmRet[w].how = "requery" =>
                   \E r \in DmVisible(w) :
                       /\ r.kind = dmRet[w].kind /\ r.nk = dmRet[w].nk
                       /\ r.key = dmRet[w].key

\* what the code does for C2: on SQLite the calls on genes, platforms and
\* illnesses never fail
C2_SqliteUniqueDimensionNeverFails ==
    (dmDialect = "sqlite" /\ dmKind \in DmUniqueKinds) =>
        \A w \in DmWorkers : DmEnded(w) => dmRet[w].how # "raised"

\* C3: a call for a natural key whose row is already in the database returns the
\* key of that row, also when the row is not in the caller's cache.
C3_SecondCallReturnsSameKey ==
    \A w \in DmWorkers :
        (DmEnded(w) /\ dmRet[w].existed) => dmRet[w].how # "raised"

\* what the code does for C3: the calls on genes, platforms and illnesses find
\* the row that is not in the cache with their SELECT
C3_UniqueDimensionFindsStoredRow ==
    dmKind \in DmUniqueKinds =>
        \A w \in DmWorkers :
            (DmEnded(w) /\ dmRet[w].existed) => dmRet[w].how \in {"cache", "select"}

----------------------------------------------------------------------------
(* Claims about run_pipeline.                                              *)

RnFailed == {s \in RnDirs : rnStatus[s] = "failed"}

RnCompleted == {s \in RnDirs : rnStatus[s] = "completed"}

\* C9: an exception raised while one study is processed is caught and logged
\* and never cancels, blocks or fails the worker of another study, and
\* run_pipeline returns normally once every study has completed or failed.
C9_FailureStaysInItsStudy ==
    /\ rnMain # "raised"
    /\ \A s \in RnDirs : rnStatus[s] \in {"queued", "running", "completed", "failed"}
    /\ rnWriter \notin RnFailed
    /\ RnFailed \cap rnSeen \subseteq rnLogged
    /\ rnMain = "collecting" => ENABLED RnNext
    /\ (RnFailed # {} /\ RnRunning # {}) =>
           \E s \in RnRunning : ENABLED (RnWrite(s) \/ RnCommit(s) \/ RnOpenSession(s))
    /\ rnMain = "returned" =>
           /\ RnFailed \cup RnCompleted = RnDirs
           /\ RnFailed = rnLogged

\* run_pipeline has returned, one study failed while another was still queued,
\* and that one went on to complete
C9_Witness ==
    /\ rnMain = "returned"
    /\ \E s, t \in RnDirs :
           /\ rnStatus[s] = "failed" /\ rnExc[s] = "IntegrityError"
           /\ rnStatus[t] = "completed"
    /\ \E u \in RnDirs : rnStatus[u] = "failed" /\ rnExc[u] = "StudyProcessingError"

----------------------------------------------------------------------------
(* Claims about the correlation replace.                                   *)

\* the last recomputation ended with a commit
CrCommitted == crLast.op = "commit"

\* C13: after a recomputation for a study commits, the study's correlation rows
\* are exactly the rows of that recomputation, and the rows of every other
\* study are what they were
C13_CommitReplacesTheStudysRows ==
    CrCommitted =>
        /\ CrRowsOf(crDb, crLast.study) = crLast.result
        /\ \A other \in CrStudies \ {crLast.study} :
               CrRowsOf(crDb, other) = CrRowsOf(crLast.before, other)

\* what the code does for C13: the claim holds for the recomputation of the
\* pipeline, and for every entry point the rows of the other studies are kept
C13_PipelineCommitReplacesTheStudysRows ==
    CrCommitted =>
        /\ crLast.entry = "pipeline" => CrRowsOf(crDb, crLast.study) = crLast.result
        /\ \A other \in CrStudies \ {crLast.study} :
               CrRowsOf(crDb, other) = CrRowsOf(crLast.before, other)

\* C14: a recomputation that yields no correlation row leaves the study without
\* correlation rows, whichever entry point ran it
C14_EmptyResultDeletesStaleRows ==
    (CrCommitted /\ crLast.result = {}) => CrRowsOf(crDb, crLast.study) = {}

\* what the code does for C14: the pipeline, and the job for a study without
\* expression data, delete the stale rows
C14_PipelineAndJobDeleteStaleRows ==
    (CrCommitted /\ crLast.result = {} /\ crLast.entry \in {"pipeline", "job"})
        => CrRowsOf(crDb, crLast.study) = {}

\* C15: the committed correlation rows of a study change only in one step from
\* the complete old set to the complete set of the running recomputation;
\* a failure or a crash between the statements changes nothing
C15_ReplaceIsAtomic ==
    [][\A study \in CrStudies :
          CrRowsOf(crDb', study) # CrRowsOf(crDb, study) =>
              /\ crRun # CrIdle
              /\ study = crRun.study
              /\ CrRowsOf(crDb', study) = CrComputed]_vars

\* a recomputation of the pipeline failed after its DELETE, and the rows of an
\* earlier recomputation of the study are still committed, all three of them
C15_Witness ==
    /\ crLast.op = "failed"
    /\ crLast.at = "deleted"
    /\ crLast.entry = "pipeline"
    /\ Cardinality(CrRowsOf(crDb, crLast.study)) = 3

----------------------------------------------------------------------------
(* Claims about rollback_run.                                              *)

\* the step in which a rollback_run commits
RbCommitStep == rbPc = "runs" /\ rbPc' = "idle" /\ rbLast'.op = "commit"

\* no engine row tagged with run_id is left in db
RbNoEngineRowOf(db, run_id) == \A t \in RbRunTables : RbTagged(db, t, run_id) = {}

\* the commit changed no row tagged with another run id and no dimension row
RbOthersKept ==
    /\ \A t \in RbRunTables : \A r \in RbRunIds \ {rbArg} :
           RbTagged(rbDb', t, r) = RbTagged(rbDb, t, r)
    /\ rbDb'.dim_study = rbDb.dim_study
    /\ \A r \in RbRunIds \ {rbArg} :
           {cp \in rbArtifacts' : cp.run_id = r} = {cp \in rbArtifacts : cp.run_id = r}

\* C16: when rollback_run(R) has committed, no fact, metric, checkpoint or run
\* row tagged R is left, the checkpoints that the run command recorded for R
\* included, and the rows of other run ids and the dimension rows are as before
C16_RollbackRemovesAllRowsOfTheRun ==
    [][RbCommitStep =>
          /\ RbNoEngineRowOf(rbDb', rbArg)
          /\ {cp \in RbCheckpointStoreRows' : cp.run_id = rbArg} = {}
          /\ RbOthersKept]_vars

\* what rollback_run does remove: the rows tagged R in the engine database
C16_RollbackRemovesEngineRowsOfTheRun ==
    [][RbCommitStep => RbNoEngineRowOf(rbDb', rbArg) /\ RbOthersKept]_vars

\* C17: the committed tables change under a rollback_run only by losing all
\* the rows of its run id at once, and a rollback_run that fails leaves them
\* as they were
C17_RollbackIsAtomic ==
    [][/\ (\E t \in RbRunTables : rbDb[t] \ rbDb'[t] # {}) =>
              /\ rbArg \in RbRunIds
              /\ \A t \in RbRunTables : rbDb'[t] = {row \in rbDb[t] : row.run_id # rbArg}
       /\ (rbPc \in RbRunTables /\ rbLast'.op = "failed" /\ rbPc' = "idle") => rbDb' = rbDb]_vars

\* a rollback_run failed after its third delete, and the run's rows of all
\* four tables are still there
C17_Witness ==
    /\ rbLast.op = "failed" /\ rbLast.at = "checkpoints"
    /\ \A t \in RbRunTables : RbTagged(rbDb, t, rbLast.run_id) # {}

----------------------------------------------------------------------------
(* Claims about the BatchLoader writes.                                    *)

\* C18: a write is attempted at most retry_attempts times; when that many
\* attempts have failed the caller gets RuntimeError; and a call that returns
\* has made its write in its last attempt
C18_FailingWriteEndsInRuntimeError ==
    /\ ldAttempt <= ldConfig.retry_attempts
    /\ Len(ldErrs) <= ldConfig.retry_attempts
    /\ Len(ldErrs) = ldConfig.retry_attempts =>
           ldPc = "raised" /\ ldRet = [kind |-> "raise", exc |-> "RuntimeError"]
    /\ ldPc = "raised" => Len(ldErrs) = ldConfig.retry_attempts
    /\ (ldPc = "returned" /\ ldAttempt > 0) =>
           /\ Len(ldErrs) = ldAttempt - 1
           /\ IF ldIn.op = "upsert_study_metadata"
              THEN [study_id |-> ldIn.study_id, payload |-> ldIn.payload] \in ldDb.dim_study
              ELSE /\ ldDb.fact_expression = ldBefore.fact_expression \o LdFactRows(ldIn, ldCalls)
                   /\ ldRet.value = Len(ldIn.rows)

\* three attempts, all failed on a locked database, and the RuntimeError
C18_Witness ==
    /\ ldConfig.retry_attempts = MaxAttempts
    /\ ldPc = "raised"
    /\ ldAttempt = MaxAttempts
    /\ \A k \in DOMAIN ldErrs : ldErrs[k].exc \in LdTransient

\* C19: the attempt that fails with a non-transient error is the last one of
\* its call, which ends with it
C19_NonTransientErrorIsNotRetried ==
    \A k \in DOMAIN ldErrs :
        ldErrs[k].exc \in LdNonTransient => ldAttempt = k /\ ldPc = "raised"

\* what holds instead: a non-transient error is retried like any other, until
\* retry_attempts attempts have been made
C19_EveryErrorIsRetried ==
    \A k \in DOMAIN ldErrs :
        (k < ldConfig.retry_attempts /\ ldPc \in {"returned", "raised"}) => ldAttempt > k

\* C21: a failed attempt leaves the tables as the call found them; a batch
\* call that returns has added its rows once each, after the rows that were
\* there, and says how many; a call that raises has added nothing
C21_FailedAttemptLeavesStorageUnchanged ==
    /\ ldPc \in {"attempt", "executed", "wait", "raised"} => ldDb = ldBefore
    /\ (ldPc = "returned" /\ ldIn.op = "insert_expression_batch") =>
           /\ ldDb.fact_expression = ldBefore.fact_expression \o LdFactRows(ldIn, ldCalls)
           /\ ldRet.value = Len(ldIn.rows)
           /\ ldDb.dim_study = ldBefore.dim_study

\* the second batch returned after an attempt that failed at its commit
C21_Witness ==
    /\ ldPc = "returned" /\ ldIn.op = "insert_expression_batch"
    /\ ldCalls = 2
    /\ Len(ldIn.rows) = MaxLoaderRows
    /\ ldBefore.fact_expression # <<>>
    /\ \E k \in DOMAIN ldErrs : ldErrs[k].at = "executed"

\* C22: the study dimension holds, for each study id, the one row of the last
\* upsert_study_metadata that returned for it, or the row it had before the
\* first one; the rows of the other study ids are as the call found them
C22_OneRowPerStudyWithLastPayload ==
    /\ \A s \in LdStudyIds :
           {row \in ldDb.dim_study : row.study_id = s} =
               IF ldUpserted[s] = "none" THEN {} ELSE {[study_id |-> s, payload |-> ldUpserted[s]]}
    /\ (ldPc = "returned" /\ ldIn.op = "upsert_study_metadata") =>
           /\ ldUpserted[ldIn.study_id] = ldIn.payload
           /\ {row \in ldDb.dim_study : row.study_id # ldIn.study_id} =
                  {row \in ldBefore.dim_study : row.study_id # ldIn.study_id}

\* a second upsert of a study has returned, with another payload than the first
C22_Witness ==
    /\ ldPc = "returned" /\ ldIn.op = "upsert_study_metadata"
    /\ ldCalls = 2
    /\ \E row \in ldBefore.dim_study : row.study_id = ldIn.study_id /\ row.payload = "p1"
    /\ ldIn.payload = "p2"
    /\ \E row \in ldDb.dim_study : row.study_id # ldIn.study_id

----------------------------------------------------------------------------
(* Claims about the run command.                                           *)

ClEnded == clPc \in {"complete", "raised"}

\* C20: when the run has ended, every study after one whose write failed
\* terminally has been processed
C20_RunGoesOnAfterTerminalFailure ==
    ClEnded =>
        \A k \in DOMAIN clPlan : clStatus[k] = "failed" =>
            \A j \in DOMAIN clPlan : j > k => clStatus[j] # "pending"

\* what holds instead: the RuntimeError of a write ends the command, and the
\* studies after the failed one are never looked at
C20_TerminalFailureEndsTheRun ==
    \A k \in DOMAIN clPlan : clStatus[k] = "failed" =>
        /\ clPc = "raised"
        /\ \A j \in DOMAIN clPlan : j > k => clStatus[j] = "pending"

\* only a failure of the metadata transform is kept inside its study
C20_TransformFailureSkipsOnlyItsStudy ==
    \A k \in DOMAIN clPlan :
        (clStatus[k] = "skipped" /\ clPc = "complete") =>
            \A j \in DOMAIN clPlan : clStatus[j] \in {"skipped", "loaded"}

----------------------------------------------------------------------------
(* Claims about compute_gene_pair_correlations and _benjamini_hochberg.    *)

CpComputed == cpPc = "done" /\ cpIn.fn = "compute_gene_pair_correlations"

CpAdjusted == cpPc = "done" /\ cpIn.fn = "_benjamini_hochberg"

\* the samples with a value of gene g
CpSamplesOf(g) == {c.sample : c \in {x \in cpIn.matrix : x.gene_key = g}}

CpValues(g, samples) == {c.value : c \in {x \in cpIn.matrix : x.gene_key = g /\ x.sample \in samples}}

\* the samples of illness key ik; for NoKey the samples of the matrix that the
\* illness map gives no illness, None or no item
CpCohort(ik) ==
    IF ik = NoKey
    THEN {c.sample : c \in cpIn.matrix} \ {e.nk : e \in {x \in cpIn.sample_illness_map : x.key # NoKey}}
    ELSE {e.nk : e \in {x \in cpIn.sample_illness_map : x.key = ik}}

CpShared(ik, a, b) == CpCohort(ik) \cap CpSamplesOf(a) \cap CpSamplesOf(b)

\* the pair a < b qualifies in the cohort ik: the cohort and the shared samples
\* reach min_samples and neither series is constant
CpQualifies(ik, a, b) ==
    /\ a < b
    /\ Cardinality(CpCohort(ik)) >= cpIn.min_samples
    /\ Cardinality(CpShared(ik, a, b)) >= cpIn.min_samples
    /\ Cardinality(CpValues(a, CpShared(ik, a, b))) > 1
    /\ Cardinality(CpValues(b, CpShared(ik, a, b))) > 1

CpRecordsOf(ik, a, b) ==
    {r \in cpOut : /\ r.illness_key = ik
                   /\ {r.gene_a_key, r.gene_b_key} = {a, b}}

CpIllnessKeys == {e.key : e \in cpIn.sample_illness_map} \ {NoKey}

\* C23: the samples without illness are one cohort, whose qualifying gene
\* pairs are emitted with illness_key null
C23_UnassignedSamplesAreOneCohort ==
    CpComputed =>
        \A a, b \in CpGeneKeys :
            CpQualifies(NoKey, a, b) => CpRecordsOf(NoKey, a, b) # {}

\* what holds instead: no record has illness_key null
C23_UnassignedSamplesAreDropped ==
    CpComputed => \A r \in cpOut : r.illness_key # NoKey

\* C24: for the cohorts of the illness map, one record for each qualifying
\* pair, with n_samples the number of shared samples, and no other record
C24_OneRecordPerQualifyingPair ==
    CpComputed =>
        /\ \A ik \in CpIllnessKeys : \A a, b \in CpGeneKeys :
               IF CpQualifies(ik, a, b)
               THEN /\ Cardinality(CpRecordsOf(ik, a, b)) = 1
                    /\ \A r \in CpRecordsOf(ik, a, b) :
                           r.n_samples = Cardinality(CpShared(ik, a, b))
               ELSE a < b => CpRecordsOf(ik, a, b) = {}
        /\ \A r \in cpOut : r.illness_key \in CpIllnessKeys

\* the same with the default min_samples, or any of at least three
C24_OneRecordPerQualifyingPairOfThree ==
    cpIn.fn = "compute_gene_pair_correlations" /\ cpIn.min_samples >= 3
        => C24_OneRecordPerQualifyingPair

\* C25: two genes with values for the same two samples, neither constant, and
\* no cohort metadata: one record, with n_samples = 2
C25_TwoSamplesGiveOneRecord ==
    (/\ CpComputed
     /\ cpIn.sample_illness_map = {}
     /\ \E a, b \in CpGeneKeys :
           /\ a < b
           /\ {c.gene_key : c \in cpIn.matrix} = {a, b}
           /\ CpSamplesOf(a) = CpSamplesOf(b) /\ Cardinality(CpSamplesOf(a)) = 2
           /\ Cardinality(CpValues(a, CpSamplesOf(a))) = 2
           /\ Cardinality(CpValues(b, CpSamplesOf(b))) = 2)
        => /\ Cardinality(cpOut) = 1
           /\ \A r \in cpOut : r.n_samples = 2

\* what holds instead: without cohort metadata nothing is returned
C25_NoCohortMetadataGivesNoRecord ==
    (CpComputed /\ cpIn.sample_illness_map = {}) => cpOut = {}

\* C26: gene_a_key < gene_b_key in every record, and no two records of one
\* study and illness are about the same two genes
C26_GeneKeysAreOrdered ==
    CpComputed =>
        /\ \A r \in cpOut : r.gene_a_key < r.gene_b_key
        /\ \A r1, r2 \in cpOut :
               (/\ r1.study_key = r2.study_key /\ r1.illness_key = r2.illness_key
                /\ {r1.gene_a_key, r1.gene_b_key} = {r2.gene_a_key, r2.gene_b_key}) => r1 = r2

\* three genes, all three pairs emitted for one cohort
C26_Witness == CpComputed /\ \E ik \in CpIllnessKeys : Cardinality({r \in cpOut : r.illness_key = ik}) = 3

\* C27: the q-values are monotone in the p-values, each is the least
\* p_k * m / k over the places k from its own on, at most 1, and each is in [0,1]
C27_QValuesAreMonotone ==
    CpAdjusted =>
        LET p == cpIn.p_values
            m == Len(p)
        IN /\ DOMAIN cpOut = DOMAIN p
           /\ \A i, j \in DOMAIN p : p[i] <= p[j] => cpOut[i] <= cpOut[j]
           /\ \A i \in DOMAIN p :
                  /\ cpOut[i] \in 0..ONE
                  /\ \A k \in BhRank(p, i)..m : cpOut[i] <= BhRaw(p, k)
                  /\ \/ cpOut[i] = ONE
                     \/ \E k \in BhRank(p, i)..m : cpOut[i] = BhRaw(p, k)

\* three p-values of which the least gets its q-value from a larger one
C27_Witness ==
    /\ CpAdjusted /\ Len(cpIn.p_values) = 3
    /\ \E i \in DOMAIN cpOut : cpOut[i] < Min(BhRaw(cpIn.p_values, BhRank(cpIn.p_values, i)), ONE)

----------------------------------------------------------------------------
(* Claims about _process_metadata and _first_non_empty.                    *)

MdProcessed == mdPc = "done" /\ mdIn.fn = "_process_metadata" /\ ~mdOut.raised

MdResolved == mdPc = "done" /\ mdIn.fn = "_first_non_empty"

\* C28: the study row, every sample row and every returned sample record carry
\* StudyFiles.study_accession, whatever experiment accession the rows name
C28_StudyIsTheOneOfTheStudyFiles ==
    MdProcessed =>
        /\ \A r \in mdOut.t.studies : r.key = mdOut.study_key => r.nk = mdIn.study_accession
        /\ \A s \in mdOut.t.samples :
               \E r \in mdOut.t.studies : r.key = s.nk[2] /\ r.nk = mdIn.study_accession
        /\ \A k \in DOMAIN mdOut.samples :
               mdOut.samples[k].study_accession = mdIn.study_accession

\* what holds instead: the study is the one the first metadata row names, every
\* sample row is attached to it, and each returned record keeps the accession
\* of its own row
C28_StudyIsTheOneOfTheFirstRow ==
    MdProcessed =>
        /\ mdOut.t.studies = {[nk |-> mdIn.samples[1].study_accession, key |-> mdOut.study_key]}
        /\ \A s \in mdOut.t.samples : s.nk[2] = mdOut.study_key
        /\ mdOut.samples = mdIn.samples

\* the non-empty trimmed values that one kind of match gives a candidate
MdYield(kind, candidate) ==
    {Strip(mdIn.row[k].value) : k \in
        {k \in MdFilled(mdIn.row) :
            CASE kind = 1 -> mdIn.row[k].header = candidate
              [] kind = 2 -> Casefold(mdIn.row[k].header) = Casefold(candidate)
              [] OTHER -> NormalizeHeader(mdIn.row[k].header) = NormalizeHeader(candidate)}}

MdYields(j) == \E kind \in 1..3 : MdYield(kind, mdIn.candidates[j]) # {}

\* C29: the first candidate for which the exact, the case-insensitive or the
\* digit-ignoring match yields a non-empty trimmed value gives the value, from
\* the first kind of match that yields one; UNKNOWN only when no candidate yields
C29_FirstYieldingCandidateWins ==
    MdResolved =>
        IF \E j \in DOMAIN mdIn.candidates : MdYields(j)
        THEN LET j == CHOOSE j \in DOMAIN mdIn.candidates :
                          MdYields(j) /\ \A i \in 1..(j - 1) : ~MdYields(i)
                 kind == CHOOSE kind \in 1..3 :
                          /\ MdYield(kind, mdIn.candidates[j]) # {}
                          /\ \A i \in 1..(kind - 1) : MdYield(i, mdIn.candidates[j]) = {}
             IN mdOut.value \in MdYield(kind, mdIn.candidates[j])
        ELSE mdOut.value = UNKNOWN_VALUE

\* a candidate whose own header is in the row with a blank cell
MdBlankExact == \E j \in DOMAIN mdIn.candidates : Strip(RowGet(mdIn.row, mdIn.candidates[j])) = ""

\* what holds instead: the claim's value, as long as no candidate finds its own
\* header with a blank cell
C29_FirstYieldingCandidateWinsUnlessBlankExact ==
    (MdResolved /\ ~MdBlankExact) => C29_FirstYieldingCandidateWins

----------------------------------------------------------------------------
(* Claims about the samples iter_filtered_expression streams.              *)

\* the expected samples that the header of the file names
RdCommon == rdIn.sampleCols \cap Range(Tail(rdIn.file.header))

\* the cells of the file under a common sample, in a row of an allowed gene,
\* that float() accepts
RdCommonCells ==
    {w \in (DOMAIN rdIn.file.rows) \X (DOMAIN Tail(rdIn.file.header)) :
        /\ rdIn.file.rows[w[1]].gene \in RdAllowed
        /\ w[2] <= Len(rdIn.file.rows[w[1]].vals)
        /\ Tail(rdIn.file.header)[w[2]] \in RdCommon
        /\ IsFloat(rdIn.file.rows[w[1]].vals[w[2]])}

\* C30: every emitted row is of a sample that is both expected and in the
\* header; with a sample in common the stream is not refused and, read from the
\* start, carries the cells of the common samples; without one the call fails
\* with ExpressionFormatError and emits nothing
C30_OnlyCommonSamplesAreStreamed ==
    /\ \A k \in DOMAIN rdOut : rdOut[k].sample_accession \in RdCommon
    /\ (RdCommon = {} /\ rdPc # "new") => (rdPc = "failed" /\ rdOut = <<>>)
    /\ (RdCommon # {} /\ rdIn.file.header[1] \in {"gene", "ensembl_id"}) => rdPc # "failed"
    /\ (rdPc = "exhausted" /\ rdIn.resumeGene = NoGene) =>
           Range(rdOut) =
               {ExpressionRow(rdIn.file.rows[w[1]].gene, Tail(rdIn.file.header)[w[2]],
                              ParseFloat(rdIn.file.rows[w[1]].vals[w[2]]), w[2] - 1) :
                    w \in RdCommonCells}

\* expected S1, S2 and a file of S3, S1: the cells of S1 were streamed and a
\* number under S3, in a row of an allowed gene, was not
C30_Witness ==
    /\ rdPc = "exhausted" /\ rdIn.resumeGene = NoGene
    /\ rdIn.sampleCols # Range(Tail(rdIn.file.header))
    /\ rdOut # <<>>
    /\ \E r \in DOMAIN rdIn.file.rows, i \in DOMAIN Tail(rdIn.file.header) :
           /\ rdIn.file.rows[r].gene \in RdAllowed
           /\ Tail(rdIn.file.header)[i] \notin RdCommon
           /\ IsFloat(rdIn.file.rows[r].vals[i])

----------------------------------------------------------------------------
(* Claims about the CheckpointStore.                                       *)

\* the batch indices recorded for the run, the table and the study of the call
\* ("*": every study)
CkRecorded ==
    {r.batch_index : r \in
        {r \in ckRows : /\ r.run_id = ckRet.run_id
                        /\ r.table_name = ckRet.table_name
                        /\ ckRet.study_id \in {"*", r.study_id}}}

\* C31: latest_batch returns the largest batch index recorded for its run, study
\* and table (for "*": over every study), None when there is none; the rows of
\* other runs, tables and studies do not count
C31_LatestBatchIsLargestRecorded ==
    ckRet # <<>> =>
        IF CkRecorded = {}
        THEN ckRet.value = CkNone
        ELSE ckRet.value \in CkRecorded /\ \A b \in CkRecorded : b <= ckRet.value

\* a call for one study that returns less than another study of the same run
\* and table has recorded, next to rows of another run
C31_Witness ==
    /\ ckRet # <<>> /\ ckRet.study_id # "*" /\ ckRet.value # CkNone
    /\ \E r \in ckRows : /\ r.run_id = ckRet.run_id /\ r.table_name = ckRet.table_name
                         /\ r.study_id # ckRet.study_id /\ r.batch_index > ckRet.value
    /\ \E r \in ckRows : r.run_id # ckRet.run_id

----------------------------------------------------------------------------
(* Claims about the expression facts of a study.                           *)

\* no two facts of the table are about one (sample, gene, study)
StOneFactPerTriple(t) == \A f, g \in t.facts : SameTriple(f, g) => f = g

\* C32: storage never holds two facts of one (sample, gene, study); no fact
\* queued for insertion is about a triple that is persisted or queued already;
\* and no step changes or removes a persisted fact
C32_NoFactIsInsertedTwice ==
    /\ [](/\ StOneFactPerTriple(stDb) /\ StOneFactPerTriple(stSess)
          /\ ~FactsBreakUnique(stSess, stL.batch))
    /\ [][stDb.facts \subseteq stDb'.facts]_vars

\* what holds on every file: the table holds a triple once (uq_expression_fact)
\* and its facts are never changed or removed
C32_StoredFactsAreUniqueAndKept ==
    /\ [](StOneFactPerTriple(stDb) /\ StOneFactPerTriple(stSess))
    /\ [][stDb.facts \subseteq stDb'.facts]_vars

\* C33: in every committed state each expression fact names a sample row and a
\* gene row that are committed, and the sample is one of the fact's study
C33_FactsReferencePersistedRows ==
    \A f \in stDb.facts :
        /\ \E g \in stDb.genes : g.key = f.gene_key
        /\ \E x \in stDb.samples : x.key = f.sample_key /\ x.nk[2] = f.study_key
        /\ \E y \in stDb.studies : y.key = f.study_key

\* facts of two genes and two samples are committed, after a pass that died
C33_Witness ==
    /\ stPc = "crashed"
    /\ Cardinality({f.gene_key : f \in stDb.facts}) >= 2
    /\ Cardinality({f.sample_key : f \in stDb.facts}) >= 2

----------------------------------------------------------------------------
(* Claims about the order of the steps of a study.                         *)

\* the study row and the sample rows of the metadata file are committed
StMetadataCommitted ==
    /\ \E y \in stDb.studies : y.key = stL.study_key
    /\ \A k \in DOMAIN StSamples :
           \E x \in stDb.samples : x.nk = <<StSamples[k].gsm_accession, stL.study_key>>

\* C34: a step writes expression facts only when the metadata is committed; the
\* correlation replace is made only when the stream is read to its end and every
\* batch is committed; the state row is removed only when the correlation
\* replace is committed
C34_StepsAreInOrder ==
    [][/\ (stSess'.facts \ stSess.facts # {}) => (stPc = "rows" /\ StMetadataCommitted)
       /\ (stPc = "correlation" /\ stPc' = "clear") =>
              /\ stL.pos = Len(StStream) /\ stL.batch = <<>>
              /\ stSess.facts = stDb.facts
              /\ StMetadataCommitted
       /\ (stDb.state # {} /\ stDb'.state = {}) =>
              /\ stPc = "clear"
              /\ stSess.corr = stDb.corr
              /\ stSess.facts = stDb.facts]_vars

\* a pass has completed a study whose facts took more than one batch
C34_Witness ==
    /\ stPc = "done" /\ stDb.state = {}
    /\ Cardinality(stDb.facts) > stIn.batch_size

----------------------------------------------------------------------------
(* Claims about the sessions and caches of the study workers.              *)

\* C35: no session and no cache is used by two workers; what a worker uses is
\* the session it opened and the cache it read through that session; and the
\* session of a study that has ended, completed or failed, is closed
C35_SessionAndCacheHaveOneWorker ==
    /\ \A u, v \in wkUsed :
           (u.session = v.session \/ (u.cache # WkNoObject /\ u.cache = v.cache))
               => u.worker = v.worker
    /\ \A u \in wkUsed :
           /\ u.session = wkSession[u.worker]
           /\ u.cache # WkNoObject =>
                  u.cache = wkCache[u.worker].id /\ wkCache[u.worker].session = u.session
    /\ \A s \in WkDirs :
           (wkPc[s] \in {"completed", "failed"} /\ wkSession[s] # WkNoObject)
               => wkSessions[wkSession[s]] = "closed"
    /\ \A s \in WkDirs :
           wkPc[s] \in {"open", "ready"} => wkSessions[wkSession[s]] = "open"

\* two workers at once, each having used its session and cache, while a third
\* study has failed with its session closed
C35_Witness ==
    /\ Cardinality({u.worker : u \in {v \in wkUsed : v.cache # WkNoObject}}) >= 3
    /\ Cardinality({s \in WkDirs : wkPc[s] = "ready"}) = 2
    /\ \E s \in WkDirs : wkPc[s] = "failed" /\ wkSession[s] # WkNoObject

----------------------------------------------------------------------------
(* Claims about the gene filter.                                           *)

\* C36: the stream of a pass holds no row of a gene outside the gene filter, and
\* every gene row and every fact that ingestion leaves, in the session and in
\* the committed tables, is of a gene of the filter
C36_OnlyAllowedGenesAreIngested ==
    /\ stPc \in {"rows", "correlation", "clear"} =>
           \A k \in DOMAIN StStream : StStream[k].gene_id \in StGeneFilter
    /\ \A t \in {stSess, stDb} :
           /\ \A g \in t.genes : g.nk \in StGeneFilter
           /\ \A f \in t.facts : \E g \in t.genes : g.key = f.gene_key /\ g.nk \in StGeneFilter

\* a pass has completed, with facts, on a file that has a row of a gene outside
\* the filter with numbers in it, before a row of an allowed gene
C36_Witness ==
    /\ stPc = "done" /\ stDb.facts # {}
    /\ \E j, k \in DOMAIN stIn.file.rows :
           /\ j < k
           /\ stIn.file.rows[j].gene \notin StGeneFilter
           /\ \E i \in DOMAIN stIn.file.rows[j].vals : IsFloat(stIn.file.rows[j].vals[i])
           /\ stIn.file.rows[k].gene \in StGeneFilter

----------------------------------------------------------------------------
(* Claims about the correlations of a resumed study.                       *)

\* the matrix of an uninterrupted pass: a cell for every row of the full stream
StFullMatrix ==
    {[gene_key |-> g.key, sample |-> StFull[k].sample_accession,
      value |-> StFull[k].expression_value] :
        <<g, k>> \in {w \in stSess.genes \X DOMAIN StFull : w[1].nk = StFull[w[2]].gene_id}}

\* the correlation rows of an uninterrupted pass
StFullCorrelations ==
    ComputeGenePairCorrelations(StFullMatrix, stL.sample_illness_map, stL.study_key,
                                MIN_SAMPLES_FOR_CORRELATION)

\* C37: a pass that resumed from a cursor computes its correlations over the
\* matrix of the whole file, and the correlation rows it commits are those of
\* an uninterrupted pass
C37_ResumedCorrelationsAreComplete ==
    /\ (stPc \in {"correlation", "clear"} /\ stL.resume_gene # NoGene) =>
           stL.matrix = StFullMatrix
    /\ (stPc = "clear" /\ stL.resume_gene # NoGene) =>
           {r \in stDb.corr : r.study_key = stL.study_key} = StFullCorrelations

\* a pass that resumed behind the first gene's row has committed a correlation row
C37_Witness ==
    /\ stPc = "clear" /\ stL.resume_gene # NoGene
    /\ Len(StStream) < Len(StFull)
    /\ stL.resume_gene # StFull[1].gene_id
    /\ stDb.corr # {}

----------------------------------------------------------------------------
(* Claims about the rows before the resume gene.                           *)

\* the data rows of the file that name the resume gene
RdOccurrences == {k \in DOMAIN rdIn.file.rows : rdIn.file.rows[k].gene = rdIn.resumeGene}

RdFirstOccurrence == CHOOSE k \in RdOccurrences : \A j \in RdOccurrences : k <= j

\* the file without the data rows before the first one of the resume gene
RdFromFirstOccurrence ==
    [rdIn.file EXCEPT !.rows = SubSeq(@, RdFirstOccurrence, Len(@))]

\* C38: with a resume gene, the rows emitted are those of the file cut to start
\* at the first data row of the resume gene, so none comes from a row before
\* it; when no data row names the resume gene nothing is emitted, and the call
\* fails only where it fails without resume gene
C38_NothingBeforeResumeGene ==
    rdIn.resumeGene # NoGene =>
        /\ (rdPc = "failed") => ReaderRaises(rdIn.file, rdIn.sampleCols)
        /\ RdOccurrences = {} => rdOut = <<>>
        /\ (RdOccurrences # {} /\ rdPc = "exhausted") =>
               /\ rdOut = IterRows(RdFromFirstOccurrence.rows, 1, Tail(rdIn.file.header),
                                   RdAllowed, RdCommon, FALSE, rdIn.resumeGene, rdIn.resumeIdx)
               /\ Len(rdOut) <= Cardinality({w \in RdCommonCells : w[1] >= RdFirstOccurrence})
               /\ \A k \in DOMAIN rdOut :
                      \E j \in RdFirstOccurrence..Len(rdIn.file.rows) :
                          rdIn.file.rows[j].gene = rdOut[k].gene_id

\* a resumed stream has ended with rows, on a file whose first data row is of
\* another allowed gene and has a number under a common sample
C38_Witness ==
    /\ rdPc = "exhausted" /\ rdIn.resumeGene # NoGene /\ rdOut # <<>>
    /\ RdOccurrences # {} /\ RdFirstOccurrence > 1
    /\ \E w \in RdCommonCells : w[1] < RdFirstOccurrence

----------------------------------------------------------------------------
(* Claims about the resume cursor.                                         *)

\* the data row of the file that names the gene; 0 for no gene
StRowOf(gene) ==
    IF gene = NoGene THEN 0
    ELSE CHOOSE k \in DOMAIN stIn.file.rows : stIn.file.rows[k].gene = gene

\* the cursor of state row r is at the file position of state row q or before it
StNotAfter(r, q) ==
    \/ StRowOf(r.last_processed_gene) < StRowOf(q.last_processed_gene)
    \/ /\ StRowOf(r.last_processed_gene) = StRowOf(q.last_processed_gene)
       /\ r.last_sample_index <= q.last_sample_index

\* C39: no step moves the committed cursor of the study to an earlier file
\* position, and the steps of a pass before its loop (the metadata and the state
\* row) leave a committed cursor as it is
C39_CursorNeverMovesBack ==
    [][\A r \in StStateRows(stDb), q \in StStateRows(stDb') :
           /\ StNotAfter(r, q)
           /\ stPc \in {"metadata", "state", "expression"} =>
                  /\ q.last_processed_gene = r.last_processed_gene
                  /\ q.last_sample_index = r.last_sample_index]_vars

\* a pass that resumed from a cursor in the file has committed a later cursor
C39_Witness ==
    /\ stPc = "rows" /\ stL.resume_gene # NoGene
    /\ \E q \in StStateRows(stDb) :
           ~StNotAfter(q, [last_processed_gene |-> stL.resume_gene,
                           last_sample_index |-> stL.resume_index])

(* Claims about the checkpoints of the run command.                          *)

\* the record calls of a study, in the order of the run
ClRecordedOf(study) ==
    SelectSeq(clLog, LAMBDA e : e[1] = "checkpoint" /\ e[2] = study)

\* C40: in the run command the checkpoint of batch i of a study is recorded
\* only after the rows of batch i are committed, the batch indices recorded
\* for a study are 0, 1, .., k in this order, each once, and so every
\* recorded checkpoint is of a batch whose rows are persisted.
C40_CheckpointsFollowCommittedBatches ==
    /\ \A p \in DOMAIN clLog :
           clLog[p][1] = "checkpoint" =>
               <<clLog[p][2], clLog[p][3]>> \in ClCommitted(SubSeq(clLog, 1, p - 1))
    /\ \A study \in DOMAIN clPlan :
           \A n \in DOMAIN ClRecordedOf(study) : ClRecordedOf(study)[n][3] = n - 1
    /\ clCheckpoints =
           {<<clLog[p][2], clLog[p][3]>> : p \in {q \in DOMAIN clLog : clLog[q][1] = "checkpoint"}}
    /\ clCheckpoints \subseteq ClCommitted(clLog)

\* a study was loaded with two checkpoints, the next one has recorded its
\* first checkpoint, and its second write has failed
C40_Witness ==
    /\ clPc = "raised"
    /\ clIdx = 2
    /\ clCheckpoints = {<<1, 0>>, <<1, 1>>, <<2, 0>>}
    /\ <<2, 1>> \notin ClCommitted(clLog)

====
